---- MODULE Spec2Model ----
(***************************************************************************)
(* A model of the return-projection engine of buffett_investing:           *)
(*   step8.py   ROE-compounding Method Runner                              *)
(*   step9.py   EPS-growth Method Runner (growth estimator, projector)     *)
(*   step10.py  Reconciler (combine_return_estimates and main)             *)
(*                                                                         *)
(* Numbers.  Returns are fixed-point integers in units of 0.0005, so that  *)
(* 0.12 is 240 and 0.15 is 300; the values read from the result sheets     *)
(* have a resolution of 0.001 (even integers), which makes the mean of two *)
(* returns exact.  Ratios (the agreement score, growth rates, ROE, payout) *)
(* are exact fractions [n, d] in lowest terms with d > 0.  Floating-point  *)
(* rounding is not modelled.                                               *)
(***************************************************************************)
EXTENDS Integers, Sequences, FiniteSets, TLC

VARIABLES
    pc,                 \* position of the run
    roe_df,             \* step10: sheet ROE_Projection_Filtered_Stocks
    eps_df,             \* step10: sheet EPS_Growth_Filtered_Stocks
    combined_results,   \* step10: what combine_return_estimates yields
    results_df,         \* step10.main: combined results after sort_values
    qualified_stocks,   \* step10.main: rows with Meets_12_Percent
    summary,            \* step10.main: the counts printed after saving
    tickers,            \* step8.main: tickers of earnings_yield_filtered_stocks.csv
    idx,                \* step8/step9.main: position of the ticker loop
    results,            \* step8/step9.main: results list of the running step
    roe_csv,            \* file roe_projection_filtered_stocks.csv
    eps_csv,            \* file eps_growth_filtered_stocks.csv
    eps_data,           \* step9: year -> EPS of one ticker
    growth_rates,       \* step9: year-over-year growth observations
    method,             \* step9: method argument of estimate_future_eps_growth
    projected_growth_rate,  \* step9: value of estimate_future_eps_growth
    year_pos,           \* step8.main: position in years_to_analyze
    roe_values,         \* step8.main: ROE of the years collected
    payout_ratios,      \* step8.main: payout ratio of the years collected
    current_equity,     \* step8.main: 2022 shareholders' equity, or None
    current_shares,     \* step8.main: 2022 shares outstanding, or None
    equity_growth_rate, \* step8: growth_rate of project_future_equity, or None
    current_price,      \* step8/step9.main: price at the end of December 2022
    current_pe,         \* step8.main: price / 2022 EPS, or None
    roe_avg,            \* step8.main: mean(roe_values)
    payout_ratio_avg,   \* step8.main: mean(payout_ratios)
    eps_payout_ratio_avg,   \* step9.main: mean(payout_ratios)
    pe_data,            \* step9.main: price / EPS of the profitable years
    future_pe,          \* what estimate_future_pe_ratio yields
    roe_projection,     \* what calculate_projected_return yields
    eps_projection,     \* what calculate_eps_projected_return yields
    dividend_per_share, \* both projectors: current_dividend_per_share
    future_price        \* both projectors: future_stock_price

reconVars == <<roe_df, eps_df, combined_results, results_df, qualified_stocks, summary>>

runnerVars == <<tickers, idx, results, roe_csv, eps_csv>>

growthVars == <<eps_data, growth_rates, method, projected_growth_rate>>

roeVars == <<year_pos, roe_values, payout_ratios, current_equity, current_shares,
             equity_growth_rate>>

projVars == <<current_price, current_pe, roe_avg, payout_ratio_avg, eps_payout_ratio_avg,
              pe_data, future_pe, roe_projection, eps_projection, dividend_per_share,
              future_price>>

vars == <<pc, reconVars, runnerVars, growthVars, roeVars, projVars>>

----------------------------------------------------------------------------
(* Bounds of the model *)

MaxRows == 2

MaxTickers == 2

MaxObs == 3

----------------------------------------------------------------------------
(* Python values and arithmetic *)

\* What a call yields: a list it returns, None, or an exception it raises.
ReturnsList(rows) == [kind |-> "list", rows |-> rows]

ReturnsNone == [kind |-> "None", rows |-> << >>]

Raises(exception) == [kind |-> exception, rows |-> << >>]

\* An optional value: None, or a value v.
None == << >>

Some(v) == <<v>>

\* A file: absent, or present with rows.
NoFile == [exists |-> FALSE, rows |-> << >>]

File(rows) == [exists |-> TRUE, rows |-> rows]

Abs(x) == IF x < 0 THEN -x ELSE x

Max2(a, b) == IF b > a THEN b ELSE a

RECURSIVE GCD(_, _)
GCD(a, b) == IF b = 0 THEN a ELSE GCD(b, a % b)

\* The fraction n/d (d # 0) in lowest terms with a positive denominator.
Frac(n, d) ==
    LET g == GCD(Abs(n), Abs(d))
        s == IF d < 0 THEN -1 ELSE 1
    IN  [n |-> (s * n) \div g, d |-> (s * d) \div g]

FInt(k) == [n |-> k, d |-> 1]

\* The operations reduce before they multiply, to keep the intermediate
\* integers small.
FAdd(x, y) ==
    LET g == GCD(x.d, y.d)
    IN  Frac(x.n * (y.d \div g) + y.n * (x.d \div g), (x.d \div g) * y.d)

FSub(x, y) ==
    LET g == GCD(x.d, y.d)
    IN  Frac(x.n * (y.d \div g) - y.n * (x.d \div g), (x.d \div g) * y.d)

FMul(x, y) ==
    LET a == Frac(x.n, y.d)
        b == Frac(y.n, x.d)
    IN  [n |-> a.n * b.n, d |-> a.d * b.d]

\* x / y, for y # 0
FDiv(x, y) == FMul(x, Frac(y.d, y.n))

RECURSIVE FPow(_, _)
FPow(x, k) == IF k = 0 THEN FInt(1) ELSE FMul(x, FPow(x, k - 1))

FLt(x, y) ==
    LET g == GCD(x.d, y.d)
    IN  x.n * (y.d \div g) < y.n * (x.d \div g)

FLe(x, y) ==
    LET g == GCD(x.d, y.d)
    IN  x.n * (y.d \div g) <= y.n * (x.d \div g)

FGt(x, y) == FLt(y, x)

FGe(x, y) == FLe(y, x)

\* Natural numbers beyond the machine integers, as sequences of decimal
\* limbs, the least significant first.
Limb == 10000

RECURSIVE BigOf(_)
BigOf(n) == IF n < Limb THEN <<n>> ELSE <<n % Limb>> \o BigOf(n \div Limb)

RECURSIVE BigTimes(_, _, _)
BigTimes(a, k, carry) ==
    IF a = << >> THEN (IF carry = 0 THEN << >> ELSE BigOf(carry))
    ELSE LET v == Head(a) * k + carry
         IN  <<v % Limb>> \o BigTimes(Tail(a), k, v \div Limb)

RECURSIVE BigTimesPower(_, _, _)
BigTimesPower(a, k, e) ==
    IF e = 0 THEN a ELSE BigTimesPower(BigTimes(a, k, 0), k, e - 1)

RECURSIVE BigGe(_, _)
BigGe(a, b) ==
    IF Len(a) # Len(b) THEN Len(a) > Len(b)
    ELSE IF a = << >> THEN TRUE
    ELSE LET i == Len(a)
         IN  IF a[i] # b[i] THEN a[i] > b[i]
             ELSE BigGe(SubSeq(a, 1, i - 1), SubSeq(b, 1, i - 1))

\* x >= base ^ e, for a fraction x >= 0 and a fraction base > 0 whose
\* numerator and denominator are below the limb.
AtLeastPower(x, base, e) ==
    x.n > 0 /\ BigGe(BigTimesPower(BigOf(x.n), base.d, e),
                      BigTimesPower(BigOf(x.d), base.n, e))

----------------------------------------------------------------------------
(* Tickers *)

Tickers == {"A", "a", "B"}

\* A case folding that maps every ticker to one key.
Upper_FoldsAll(t) == "A"

\* str.upper()
Upper(t) ==
    CASE t = "a" -> "A"
      [] t = "b" -> "B"
      [] t = "c" -> "C"
      [] OTHER   -> t

\* The lexical order sorted() puts upper-cased tickers in.
TickerOrd(t) ==
    CASE t = "A" -> 1
      [] t = "B" -> 2
      [] t = "C" -> 3
      [] OTHER   -> 4

RECURSIVE SortedTickers(_)
SortedTickers(S) ==
    IF S = {} THEN << >>
    ELSE LET t == CHOOSE x \in S : \A y \in S : TickerOrd(x) <= TickerOrd(y)
         IN  <<t>> \o SortedTickers(S \ {t})

----------------------------------------------------------------------------
(* step10.py: the Reconciler *)

Pct12 == 240

Pct15 == 300

\* set(df['Ticker'].str.upper())
UpperTickers(df) == {Upper(df[i].Ticker) : i \in 1..Len(df)}

\* The dictionary built keeping the first row of a ticker.
RowDict_First(df, ticker) ==
    LET I == {i \in 1..Len(df) : Upper(df[i].Ticker) = ticker}
    IN  df[CHOOSE i \in I : \A j \in I : i <= j]

\* {row['Ticker'].upper(): row for _, row in df.iterrows()}: a later row
\* with the same upper-cased ticker replaces an earlier one.
RowDict(df, ticker) ==
    LET I == {i \in 1..Len(df) : Upper(df[i].Ticker) = ticker}
    IN  df[CHOOSE i \in I : \A j \in I : j <= i]

\* The difference taken relative to the ROE return instead of the larger one.
ReturnAgreement_OverRoe(roe_return, eps_return) ==
    FSub(FInt(1), Frac(Abs(roe_return - eps_return), roe_return))

\* 1 - (return_difference / max(roe_return, eps_return)); the caller has
\* checked that the denominator is not zero.
ReturnAgreement(roe_return, eps_return) ==
    FSub(FInt(1), Frac(Abs(roe_return - eps_return), Max2(roe_return, eps_return)))

\* The label with a tie given to the ROE method.
MoreOptimistic_TieToRoe(roe_return, eps_return) ==
    IF roe_return >= eps_return THEN "ROE" ELSE "EPS Growth"

\* "ROE" if roe_return > eps_return else "EPS Growth"
MoreOptimistic(roe_return, eps_return) ==
    IF roe_return > eps_return THEN "ROE" ELSE "EPS Growth"

AverageReturn(roe_return, eps_return) == (roe_return + eps_return) \div 2

\* The difference without abs().
ReturnDifference_Signed(roe_return, eps_return) == roe_return - eps_return

ReturnDifference(roe_return, eps_return) == Abs(roe_return - eps_return)

\* meets_15_percent = average_return >= 0.15
Meets15(average_return) == average_return >= Pct15

\* The admission threshold taken strictly.
Meets12_Strict(average_return) == average_return > Pct12

\* meets_12_percent = average_return >= 0.12
Meets12(average_return) == average_return >= Pct12

CombinedResult(ticker, roe_row, eps_row) ==
    LET roe_return == roe_row.Annualized_Return
        eps_return == eps_row.Annualized_Return
        average_return == AverageReturn(roe_return, eps_return)
    IN  [ Ticker                 |-> ticker,
          ROE_Method_Return      |-> roe_return,
          EPS_Method_Return      |-> eps_return,
          Average_Return         |-> average_return,
          Return_Difference      |-> ReturnDifference(roe_return, eps_return),
          Return_Agreement       |-> ReturnAgreement(roe_return, eps_return),
          More_Optimistic_Method |-> MoreOptimistic(roe_return, eps_return),
          Meets_15_Percent       |-> Meets15(average_return),
          Meets_12_Percent       |-> Meets12(average_return) ]

CommonTickers(roe, eps) == UpperTickers(roe) \cap UpperTickers(eps)

\* The division of line 69 raises ZeroDivisionError when the larger of the
\* two returns is 0.
DividesByZero(roe, eps, ticker) ==
    Max2(RowDict(roe, ticker).Annualized_Return,
         RowDict(eps, ticker).Annualized_Return) = 0

\* A function that upper-cases the Ticker column of its input in place.
InputAfterCombine_UpperInPlace(df) ==
    [i \in 1..Len(df) |-> [df[i] EXCEPT !.Ticker = Upper(df[i].Ticker)]]

\* What combine_return_estimates leaves of a table it was given: it reads
\* the table through df['Ticker'].str.upper(), a new Series (lines 32-33),
\* and through iterrows(), which yields copies of the rows (lines 43-44);
\* it assigns to no column and to no row.
InputAfterCombine(df) == df

combine_return_estimates(roe, eps) ==
    LET common_tickers == CommonTickers(roe, eps)
        order == SortedTickers(common_tickers)
    IN  IF common_tickers = {} THEN ReturnsNone
        ELSE IF \E t \in common_tickers : DividesByZero(roe, eps, t)
             THEN Raises("ZeroDivisionError")
        ELSE ReturnsList([i \in 1..Len(order) |->
                 CombinedResult(order[i], RowDict(roe, order[i]), RowDict(eps, order[i]))])

\* "High" if a > 0.8 else "Medium" if a > 0.6 else "Low"
AgreementLevel(return_agreement) ==
    IF FGt(return_agreement, Frac(4, 5)) THEN "High"
    ELSE IF FGt(return_agreement, Frac(3, 5)) THEN "Medium"
    ELSE "Low"

\* "Excellent" if row['Meets_15_Percent'] else "Acceptable"
Status(row) == IF row.Meets_15_Percent THEN "Excellent" ELSE "Acceptable"

\* DataFrame.sort_values(column, ascending=False) with the default kind
\* 'quicksort', which is not stable: the rows are put in descending order
\* of the column, and rows with equal values in any order.
SortValuesDescending(rows, column) ==
    LET n == Len(rows)
        P == {p \in [1..n -> 1..n] : \A i, j \in 1..n : i # j => p[i] # p[j]}
    IN  { [i \in 1..n |-> rows[p[i]]] :
            p \in {q \in P : \A i, j \in 1..n :
                       i < j => column[q[i]] >= column[q[j]]} }

\* results_df.sort_values('Average_Return', ascending=False)
SortValues(rows) ==
    SortValuesDescending(rows, [i \in 1..Len(rows) |-> rows[i].Average_Return])

\* The filter made on the flag of the higher tier.
Qualified_Excellent(rows) == SelectSeq(rows, LAMBDA r : r.Meets_15_Percent)

\* results_df[results_df['Meets_12_Percent'] == True]
Qualified(rows) == SelectSeq(rows, LAMBDA r : r.Meets_12_Percent)

HighAgreement(r) == FGt(r.Return_Agreement, Frac(4, 5))

\* The medium count without its upper limit.
MediumAgreement_NoUpperLimit(r) == FGt(r.Return_Agreement, Frac(3, 5))

MediumAgreement(r) ==
    FGt(r.Return_Agreement, Frac(3, 5)) /\ FLe(r.Return_Agreement, Frac(4, 5))

LowAgreement(r) == FLe(r.Return_Agreement, Frac(3, 5))

NoSummary ==
    [ excellent_count |-> 0, acceptable_count |-> 0,
      roe_higher |-> 0, eps_higher |-> 0,
      high_agreement |-> 0, medium_agreement |-> 0, low_agreement |-> 0 ]

Summary(rows) ==
    LET excellent_count == Len(SelectSeq(rows, LAMBDA r : r.Meets_15_Percent))
    IN  [ excellent_count  |-> excellent_count,
          acceptable_count |-> Len(rows) - excellent_count,
          roe_higher       |->
              Len(SelectSeq(rows, LAMBDA r : r.More_Optimistic_Method = "ROE")),
          eps_higher       |->
              Len(SelectSeq(rows, LAMBDA r : r.More_Optimistic_Method = "EPS Growth")),
          high_agreement   |-> Len(SelectSeq(rows, HighAgreement)),
          medium_agreement |-> Len(SelectSeq(rows, MediumAgreement)),
          low_agreement    |-> Len(SelectSeq(rows, LowAgreement)) ]

\* The returns a result sheet may hold: -0.05, 0, 0.10, 0.12, 0.14, 0.15,
\* 0.18, 0.30.
RoeSheetReturns == {-100, 0, 200, 300, 360, 600}

EpsSheetReturns == {-100, 0, 240, 280, 360}

Row(t, r) == [Ticker |-> t, Annualized_Return |-> r]

RECURSIVE Tables(_, _)
Tables(rows, n) ==
    IF n = 0 THEN {<< >>}
    ELSE LET T == Tables(rows, n - 1)
         IN  T \cup {Append(t, r) : t \in {x \in T : Len(x) = n - 1}, r \in rows}

RoeSheets == Tables({Row(t, r) : t \in Tickers, r \in RoeSheetReturns}, MaxRows)

EpsSheets == Tables({Row(t, r) : t \in Tickers, r \in EpsSheetReturns}, MaxRows)

\* load_existing_results: the two sheets hold whatever was put in them.
LoadSheets ==
    /\ pc = "start"
    /\ roe_df' \in RoeSheets
    /\ eps_df' \in EpsSheets
    /\ pc' = "loaded"
    /\ UNCHANGED <<combined_results, results_df, qualified_stocks, summary>>
    /\ UNCHANGED <<runnerVars, growthVars, roeVars, projVars>>

\* main, line 123: the call of combine_return_estimates, and the return of
\* line 125 when nothing was combined.
Combine ==
    /\ pc = "loaded"
    /\ LET res == combine_return_estimates(roe_df, eps_df)
       IN  /\ combined_results' = res
           /\ pc' = IF res.kind = "list" THEN "combined"
                    ELSE IF res.kind = "None" THEN "done"
                    ELSE "crashed"
    /\ roe_df' = InputAfterCombine(roe_df)
    /\ eps_df' = InputAfterCombine(eps_df)
    /\ UNCHANGED <<results_df, qualified_stocks, summary>>
    /\ UNCHANGED <<runnerVars, growthVars, roeVars, projVars>>

\* main, lines 129-202: sort, filter, save and print the summary.
Rank ==
    /\ pc = "combined"
    /\ \E sorted \in SortValues(combined_results.rows) :
          /\ results_df' = sorted
          /\ qualified_stocks' = Qualified(sorted)
          /\ summary' = IF Qualified(sorted) = << >> THEN NoSummary
                        ELSE Summary(Qualified(sorted))
    /\ pc' = "done"
    /\ UNCHANGED <<roe_df, eps_df, combined_results>>
    /\ UNCHANGED <<runnerVars, growthVars, roeVars, projVars>>

ReconIdle ==
    /\ roe_df = << >>
    /\ eps_df = << >>
    /\ combined_results = ReturnsNone
    /\ results_df = << >>
    /\ qualified_stocks = << >>
    /\ summary = NoSummary

RunnerIdle ==
    /\ tickers = << >>
    /\ idx = 1
    /\ results = << >>
    /\ roe_csv = NoFile
    /\ eps_csv = NoFile

GrowthIdle ==
    /\ eps_data = << >>
    /\ growth_rates = << >>
    /\ method = "conservative"
    /\ projected_growth_rate = None

RoeIdle ==
    /\ year_pos = 1
    /\ roe_values = << >>
    /\ payout_ratios = << >>
    /\ current_equity = None
    /\ current_shares = None
    /\ equity_growth_rate = None

ProjectorIdle ==
    /\ current_price = None
    /\ current_pe = None
    /\ roe_avg = None
    /\ payout_ratio_avg = None
    /\ eps_payout_ratio_avg = None
    /\ pe_data = << >>
    /\ future_pe = None
    /\ roe_projection = None
    /\ eps_projection = None
    /\ dividend_per_share = None
    /\ future_price = None

\* The Reconciler run alone, on any two sheets.
Init ==
    /\ pc = "start"
    /\ ReconIdle
    /\ RunnerIdle
    /\ GrowthIdle
    /\ RoeIdle
    /\ ProjectorIdle

Next == LoadSheets \/ Combine \/ Rank

Spec == Init /\ [][Next]_vars

----------------------------------------------------------------------------
(* step8.py, step9.py: the ticker loops of the two Method Runners, and the  *)
(* Reconciler run on what they wrote.  What the projection of one ticker    *)
(* yields is an input of the loop: no result (a continue), or an           *)
(* annualized return, a finite number.                                     *)

TickerLists == Tables(Tickers, MaxTickers)

\* annualized_return of the ROE method, which may be negative.
Step8Returns == {-100, 0, 200, 240, 360}

\* annualized_return of the EPS method.
Step9Returns == {100, 240, 280, 600}

\* The ROE runner without its admission gate.
Step8Meets12_Always(annualized_return) == TRUE

\* step8.main, lines 356-359: meets_12_percent
Step8Meets12(annualized_return) == annualized_return >= Pct12

\* step9.main, lines 408-411: meets_12_percent
Step9Meets12(annualized_return) == annualized_return >= Pct12

\* results_df.sort_values('Annualized_Return', ascending=False)
SortResults(rows) ==
    SortValuesDescending(rows, [i \in 1..Len(rows) |-> rows[i].Annualized_Return])

\* step8.main, lines 273-389: one ticker of the loop.
Step8Ticker ==
    /\ pc = "step8"
    /\ idx <= Len(tickers)
    /\ \/ UNCHANGED results
       \/ \E annualized_return \in Step8Returns :
             results' = IF Step8Meets12(annualized_return)
                        THEN Append(results, Row(tickers[idx], annualized_return))
                        ELSE results
    /\ idx' = idx + 1
    /\ UNCHANGED <<pc, tickers, roe_csv, eps_csv, reconVars, growthVars, roeVars, projVars>>

\* step8.main, lines 391-398: the results are sorted and written, when
\* there is one.
Step8Write ==
    /\ pc = "step8"
    /\ idx > Len(tickers)
    /\ IF results = << >> THEN UNCHANGED roe_csv
       ELSE \E sorted \in SortResults(results) : roe_csv' = File(sorted)
    /\ pc' = "step9"
    /\ idx' = 1
    /\ results' = << >>
    /\ UNCHANGED <<tickers, eps_csv, reconVars, growthVars, roeVars, projVars>>

\* step9.main, lines 320-444: one ticker of the loop over the tickers of
\* roe_projection_filtered_stocks.csv.
Step9Ticker ==
    /\ pc = "step9"
    /\ roe_csv.exists
    /\ idx <= Len(roe_csv.rows)
    /\ \/ UNCHANGED results
       \/ \E annualized_return \in Step9Returns :
             results' = IF Step9Meets12(annualized_return)
                        THEN Append(results, Row(roe_csv.rows[idx].Ticker, annualized_return))
                        ELSE results
    /\ idx' = idx + 1
    /\ UNCHANGED <<pc, tickers, roe_csv, eps_csv, reconVars, growthVars, roeVars, projVars>>

\* step9.main, lines 283-293 and 446-453: the run ends at once when the
\* input file is missing; otherwise the results are sorted and written,
\* when there is one.
Step9Write ==
    /\ pc = "step9"
    /\ ~roe_csv.exists \/ idx > Len(roe_csv.rows)
    /\ IF results = << >> THEN UNCHANGED eps_csv
       ELSE \E sorted \in SortResults(results) : eps_csv' = File(sorted)
    /\ pc' = "step10"
    /\ idx' = 1
    /\ results' = << >>
    /\ UNCHANGED <<tickers, roe_csv, reconVars, growthVars, roeVars, projVars>>

\* step10.main, lines 116-120: the two sheets hold what the two runners
\* wrote; main returns when one of them is missing.
LoadRunnerSheets ==
    /\ pc = "step10"
    /\ IF roe_csv.exists /\ eps_csv.exists
       THEN /\ roe_df' = roe_csv.rows
            /\ eps_df' = eps_csv.rows
            /\ pc' = "loaded"
       ELSE /\ UNCHANGED <<roe_df, eps_df>>
            /\ pc' = "done"
    /\ UNCHANGED <<combined_results, results_df, qualified_stocks, summary>>
    /\ UNCHANGED <<runnerVars, growthVars, roeVars, projVars>>

InitPipeline ==
    /\ pc = "step8"
    /\ ReconIdle
    /\ tickers \in TickerLists
    /\ idx = 1
    /\ results = << >>
    /\ roe_csv = NoFile
    /\ eps_csv = NoFile
    /\ GrowthIdle
    /\ RoeIdle
    /\ ProjectorIdle

NextPipeline ==
    \/ Step8Ticker
    \/ Step8Write
    \/ Step9Ticker
    \/ Step9Write
    \/ LoadRunnerSheets
    \/ Combine
    \/ Rank

SpecPipeline == InitPipeline /\ [][NextPipeline]_vars

----------------------------------------------------------------------------
(* step9.py: growth observations and the growth estimate *)

\* years_to_analyze of step9.main
YearsToAnalyze == 2018..2022

\* EPS of a year, in cents: a loss, nothing, or a profit (100, 110, 121
\* grow by 10% a year).
EpsValues == {-50, 0, 100, 110, 120, 121}

\* The EPS series of a ticker: the years with data, and their EPS.
EpsSeries == UNION {[Y -> EpsValues] : Y \in SUBSET YearsToAnalyze}

\* sorted(eps_data.keys())
RECURSIVE SortedYears(_)
SortedYears(Y) ==
    IF Y = {} THEN << >>
    ELSE LET y == CHOOSE x \in Y : \A z \in Y : x <= z
         IN  <<y>> \o SortedYears(Y \ {y})

\* A pair that goes from profit to loss counted as an observation.
GrowthObservation_KeepsLoss(prev_eps, curr_eps) ==
    IF prev_eps > 0 THEN <<Frac(curr_eps - prev_eps, prev_eps)>>
    ELSE IF curr_eps > 0 THEN <<Frac(1, 2)>>
    ELSE << >>

\* calculate_eps_growth_rates, lines 130-145: what one pair of consecutive
\* years appends to growth_rates.
GrowthObservation(prev_eps, curr_eps) ==
    IF prev_eps > 0 /\ curr_eps > 0 THEN <<Frac(curr_eps - prev_eps, prev_eps)>>
    ELSE IF prev_eps <= 0 /\ curr_eps > 0 THEN <<Frac(1, 2)>>
    ELSE << >>

RECURSIVE GrowthLoop(_, _, _)
GrowthLoop(data, sorted_years, i) ==
    IF i > Len(sorted_years) THEN << >>
    ELSE GrowthObservation(data[sorted_years[i - 1]], data[sorted_years[i]])
             \o GrowthLoop(data, sorted_years, i + 1)

calculate_eps_growth_rates(data) ==
    IF Cardinality(DOMAIN data) < 2 THEN << >>
    ELSE GrowthLoop(data, SortedYears(DOMAIN data), 2)

\* sorted(data), of fractions
RECURSIVE SortedFracs(_)
SortedFracs(data) ==
    IF data = << >> THEN << >>
    ELSE LET m == CHOOSE i \in 1..Len(data) : \A j \in 1..Len(data) : FLe(data[i], data[j])
         IN  <<data[m]>> \o SortedFracs([k \in 1..(Len(data) - 1) |->
                                            IF k < m THEN data[k] ELSE data[k + 1]])

RECURSIVE FSum(_)
FSum(data) == IF data = << >> THEN FInt(0) ELSE FAdd(data[1], FSum(Tail(data)))

\* statistics.mean
Mean(data) == FMul(FSum(data), Frac(1, Len(data)))

\* The lowest observation for the median.
Median_Lowest(data) == SortedFracs(data)[1]

\* statistics.median: the middle value, or the mean of the two middle ones.
Median(data) ==
    LET sorted == SortedFracs(data)
        n == Len(data)
        i == n \div 2
    IN  IF n % 2 = 1 THEN sorted[i + 1]
        ELSE FMul(FAdd(sorted[i], sorted[i + 1]), Frac(1, 2))

FMax(x, y) == IF FGt(y, x) THEN y ELSE x

FMin(x, y) == IF FLt(y, x) THEN y ELSE x

\* The cap without the floor.
Clamp_NoFloor(x, cap) == FMin(x, cap)

\* min(max(x, 0.0), cap)
Clamp(x, cap) == FMin(FMax(x, FInt(0)), cap)

\* The weights in the opposite order: the oldest of the three weighs most.
WeightedGrowth_OldestHeaviest(rates) ==
    LET n == Len(rates)
    IN  FMul(FAdd(FAdd(FMul(FInt(3), rates[n - 2]), FMul(FInt(2), rates[n - 1])),
                  rates[n]),
             Frac(1, 6))

\* sum(r * w for r, w in zip(growth_rates[-3:], [1, 2, 3])) / sum([1, 2, 3])
WeightedGrowth(rates) ==
    LET n == Len(rates)
    IN  FMul(FAdd(FAdd(rates[n - 2], FMul(FInt(2), rates[n - 1])),
                  FMul(FInt(3), rates[n])),
             Frac(1, 6))

Methods == {"conservative", "average", "trend", "other"}

\* An estimator that answers the default whatever the observations.
estimate_future_eps_growth_Default(rates, how) == Frac(1, 20)

estimate_future_eps_growth(rates, how) ==
    IF rates = << >> THEN Frac(1, 20)
    ELSE IF how = "conservative" THEN Clamp(Median(rates), Frac(1, 5))
    ELSE IF how = "average" THEN Clamp(Mean(rates), Frac(1, 4))
    ELSE IF how = "trend"
         THEN Clamp(IF Len(rates) >= 3 THEN WeightedGrowth(rates) ELSE Mean(rates),
                    Frac(1, 4))
    ELSE Frac(1, 20)

\* Growth observations given to the estimator directly: -0.50, -0.10, 0,
\* 0.10, 0.20, 0.30, 0.50.
ObservationValues ==
    {Frac(-1, 2), Frac(-1, 10), FInt(0), Frac(1, 10), Frac(1, 5), Frac(3, 10), Frac(1, 2)}

ObservationLists == Tables(ObservationValues, MaxObs)

\* calculate_eps_growth_rates applied to the EPS series of a ticker.
CalculateGrowthRates ==
    /\ pc = "series"
    /\ growth_rates' = calculate_eps_growth_rates(eps_data)
    /\ pc' = "rates"
    /\ UNCHANGED <<eps_data, method, projected_growth_rate>>
    /\ UNCHANGED <<reconVars, runnerVars, roeVars, projVars>>

\* estimate_future_eps_growth applied to a list of observations.
EstimateGrowth ==
    /\ pc = "rates"
    /\ projected_growth_rate' = Some(estimate_future_eps_growth(growth_rates, method))
    /\ pc' = "estimated"
    /\ UNCHANGED <<eps_data, growth_rates, method>>
    /\ UNCHANGED <<reconVars, runnerVars, roeVars, projVars>>

\* Either an EPS series, from which the observations are computed, or any
\* list of observations; and any method.
InitGrowth ==
    /\ \/ /\ pc = "series"
          /\ eps_data \in EpsSeries
          /\ growth_rates = << >>
       \/ /\ pc = "rates"
          /\ eps_data = << >>
          /\ growth_rates \in ObservationLists
    /\ method \in Methods
    /\ projected_growth_rate = None
    /\ ReconIdle
    /\ RunnerIdle
    /\ RoeIdle
    /\ ProjectorIdle

NextGrowth == CalculateGrowthRates \/ EstimateGrowth

SpecGrowth == InitGrowth /\ [][NextGrowth]_vars

----------------------------------------------------------------------------
(* step8.py: the fundamentals of one ticker, and its equity growth rate *)

\* years_to_analyze of step8.main
Step8Years == <<2020, 2021, 2022>>

\* What get_latest_value and get_shares_outstanding may yield for a year:
\* None or a value.
NetIncomes == {None, Some(-2), Some(0), Some(2), Some(6)}

Equities == {None, Some(-10), Some(0), Some(10), Some(20)}

SharesOutstanding == {None, Some(0), Some(4)}

DividendsPaid == {None, Some(-1), Some(0), Some(3)}

\* The truth value of an optional number: neither None nor 0.
Truthy(x) == x # None /\ x[1] # 0

\* calculate_roe
calculate_roe(net_income, shareholders_equity) ==
    IF net_income = None \/ shareholders_equity = None THEN None
    ELSE IF shareholders_equity[1] <= 0 THEN None
    ELSE Some(Frac(net_income[1], shareholders_equity[1]))

\* calculate_payout_ratio of step8.py
calculate_payout_ratio(dividends_paid, net_income) ==
    IF dividends_paid = None \/ net_income = None THEN FInt(0)
    ELSE IF net_income[1] <= 0 THEN FInt(0)
    ELSE Frac(Abs(dividends_paid[1]), net_income[1])

\* calculate_retention_ratio
calculate_retention_ratio(payout_ratio) == FSub(FInt(1), payout_ratio)

\* growth_rate of project_future_equity
EquityGrowthRate(roe, retention_ratio) == FMul(roe, retention_ratio)

\* The prices get_stock_price_dec_2022 may yield, in dollars.
Step8Prices == {0, 10}

\* step8.main, lines 320-321: current_price / current_eps when the 2022
\* EPS is positive, None otherwise.
CurrentPe(price, net_income, shares_outstanding) ==
    LET current_eps == Frac(net_income, shares_outstanding)
    IN  IF current_eps.n > 0 THEN Some(FDiv(FInt(price), current_eps)) ELSE None

\* step8.main, lines 299-323: one year of the collection loop.  The print
\* of line 323 formats roe, and raises TypeError when roe is None.
CollectYear ==
    /\ pc = "collect"
    /\ year_pos <= Len(Step8Years)
    /\ \E net_income \in NetIncomes, shareholders_equity \in Equities,
          shares_outstanding \in SharesOutstanding, dividends_paid \in DividendsPaid :
          IF Truthy(net_income) /\ Truthy(shareholders_equity) /\ Truthy(shares_outstanding)
          THEN LET roe == calculate_roe(net_income, shareholders_equity)
                   payout_ratio == calculate_payout_ratio(dividends_paid, net_income)
               IN  /\ roe_values' = IF roe # None /\ roe[1].n # 0
                                    THEN Append(roe_values, roe[1])
                                    ELSE roe_values
                   /\ payout_ratios' = Append(payout_ratios, payout_ratio)
                   /\ IF Step8Years[year_pos] = 2022
                      THEN /\ current_equity' = shareholders_equity
                           /\ current_shares' = shares_outstanding
                           /\ current_pe' = CurrentPe(current_price[1], net_income[1],
                                                      shares_outstanding[1])
                      ELSE UNCHANGED <<current_equity, current_shares, current_pe>>
                   /\ pc' = IF roe = None THEN "crashed" ELSE "collect"
          ELSE /\ UNCHANGED <<roe_values, payout_ratios, current_equity, current_shares,
                              current_pe>>
               /\ pc' = "collect"
    /\ year_pos' = year_pos + 1
    /\ UNCHANGED <<equity_growth_rate, current_price, roe_avg, payout_ratio_avg>>
    /\ UNCHANGED <<dividend_per_share, future_price, eps_payout_ratio_avg, pe_data, future_pe, roe_projection, eps_projection>>
    /\ UNCHANGED <<reconVars, runnerVars, growthVars>>

\* step8.main, lines 325-347, and calculate_projected_return, lines 175-181:
\* the ticker is skipped for want of data, or its equity growth rate is
\* computed from the averages.
ProjectEquityGrowth ==
    /\ pc = "collect"
    /\ year_pos > Len(Step8Years)
    /\ IF Len(roe_values) < 2 \/ current_equity = None \/ current_shares = None
       THEN /\ pc' = "skipped"
            /\ UNCHANGED <<equity_growth_rate, roe_avg, payout_ratio_avg>>
       ELSE LET retention_ratio == calculate_retention_ratio(Mean(payout_ratios))
            IN  /\ roe_avg' = Some(Mean(roe_values))
                /\ payout_ratio_avg' = Some(Mean(payout_ratios))
                /\ equity_growth_rate' =
                      Some(EquityGrowthRate(Mean(roe_values), retention_ratio))
                /\ pc' = "projected"
    /\ UNCHANGED <<year_pos, roe_values, payout_ratios, current_equity, current_shares>>
    /\ UNCHANGED <<current_price, current_pe>>
    /\ UNCHANGED <<dividend_per_share, future_price, eps_payout_ratio_avg, pe_data, future_pe, roe_projection, eps_projection>>
    /\ UNCHANGED <<reconVars, runnerVars, growthVars>>

\* A ticker whose price was found (lines 285-288), at the start of the
\* collection loop.
InitRoe ==
    /\ pc = "collect"
    /\ RoeIdle
    /\ ReconIdle
    /\ RunnerIdle
    /\ GrowthIdle
    /\ \E price \in Step8Prices : current_price = Some(price)
    /\ current_pe = None
    /\ roe_avg = None
    /\ payout_ratio_avg = None
    /\ eps_payout_ratio_avg = None
    /\ pe_data = << >>
    /\ future_pe = None
    /\ roe_projection = None
    /\ eps_projection = None
    /\ dividend_per_share = None
    /\ future_price = None

NextRoe == CollectYear \/ ProjectEquityGrowth

SpecRoe == InitRoe /\ [][NextRoe]_vars

----------------------------------------------------------------------------
(* step8.py, step9.py: the future price/earnings multiple *)

\* What a call yields: a value it returns, None, or an exception it raises.
Returns(v) == [kind |-> "value", value |-> <<v>>]

ReturnsNothing == [kind |-> "None", value |-> << >>]

RaisesError(exception) == [kind |-> exception, value |-> << >>]

\* The tiers with the thresholds included in the higher tier.
GrowthTier_Inclusive(g) ==
    IF FGe(g, Frac(3, 20)) THEN 1
    ELSE IF FGe(g, Frac(1, 10)) THEN 2
    ELSE IF FGe(g, Frac(1, 20)) THEN 3
    ELSE 4

\* The if/elif chain on projected_growth_rate of both
\* estimate_future_pe_ratio functions: > 0.15, > 0.10, > 0.05, else.
GrowthTier(g) ==
    IF FGt(g, Frac(3, 20)) THEN 1
    ELSE IF FGt(g, Frac(1, 10)) THEN 2
    ELSE IF FGt(g, Frac(1, 20)) THEN 3
    ELSE 4

\* estimate_future_pe_ratio of step8.py
estimate_future_pe_ratio(pe, growth) ==
    LET current == IF pe = None THEN FInt(15)
                   ELSE IF pe[1].n <= 0 THEN FInt(15)
                   ELSE pe[1]
        tier == GrowthTier(growth)
    IN  IF tier = 1 THEN FMax(FMul(current, Frac(9, 10)), FInt(12))
        ELSE IF tier = 2 THEN FMax(FMul(current, Frac(17, 20)), FInt(10))
        ELSE IF tier = 3 THEN FMax(FMul(current, Frac(4, 5)), FInt(8))
        ELSE FMax(FMul(current, Frac(7, 10)), FInt(6))

\* [pe for pe in historical_pe_ratios if pe > 0]
PositivePes(historical_pe_ratios) == SelectSeq(historical_pe_ratios, LAMBDA pe : pe.n > 0)

\* estimate_future_pe_ratio of step9.py; statistics.mean raises
\* StatisticsError on an empty list.
estimate_future_pe_ratio_eps(historical_pe_ratios, growth) ==
    LET tier == GrowthTier(growth)
    IN  IF historical_pe_ratios = << >>
        THEN Returns(IF tier = 1 THEN FInt(15)
                     ELSE IF tier = 2 THEN FInt(12)
                     ELSE IF tier = 3 THEN FInt(10)
                     ELSE FInt(8))
        ELSE IF PositivePes(historical_pe_ratios) = << >>
        THEN RaisesError("StatisticsError")
        ELSE LET avg_historical_pe == Mean(PositivePes(historical_pe_ratios))
                 pe == IF tier = 1 THEN FMin(FMul(avg_historical_pe, Frac(11, 10)), FInt(25))
                       ELSE IF tier = 2 THEN avg_historical_pe
                       ELSE IF tier = 3 THEN FMul(avg_historical_pe, Frac(9, 10))
                       ELSE FMul(avg_historical_pe, Frac(4, 5))
             IN  Returns(FMax(FMin(pe, FInt(30)), FInt(6)))

\* Current multiples: absent, negative, zero, and from low to high.
CurrentPes == {None, Some(FInt(-5)), Some(FInt(0)), Some(FInt(5)), Some(FInt(10)),
               Some(Frac(50, 3)), Some(FInt(20)), Some(FInt(40))}

\* Growth rates around the three thresholds.
GrowthRates == {Frac(-1, 10), FInt(0), Frac(1, 20), Frac(3, 50), Frac(1, 10),
                Frac(3, 25), Frac(3, 20), Frac(1, 5), Frac(3, 10)}

HistoricalPes == {FInt(-5), FInt(0), FInt(5), FInt(10), FInt(20), FInt(40)}

\* estimate_future_pe_ratio of step8.py applied to a current multiple.
EstimateRoeMultiple ==
    /\ pc = "pe8"
    /\ future_pe' = Returns(estimate_future_pe_ratio(current_pe, projected_growth_rate[1]))
    /\ pc' = "pe8_done"
    /\ UNCHANGED <<current_price, current_pe, roe_avg, payout_ratio_avg>>
    /\ UNCHANGED <<dividend_per_share, future_price, eps_payout_ratio_avg, pe_data, roe_projection, eps_projection>>
    /\ UNCHANGED <<reconVars, runnerVars, growthVars, roeVars>>

\* estimate_future_pe_ratio of step9.py applied to a list of historical
\* multiples.
EstimateEpsMultiple ==
    /\ pc = "pe9"
    /\ future_pe' = estimate_future_pe_ratio_eps(pe_data, projected_growth_rate[1])
    /\ pc' = "pe9_done"
    /\ UNCHANGED <<current_price, current_pe, roe_avg, payout_ratio_avg>>
    /\ UNCHANGED <<dividend_per_share, future_price, eps_payout_ratio_avg, pe_data, roe_projection, eps_projection>>
    /\ UNCHANGED <<reconVars, runnerVars, growthVars, roeVars>>

\* Any growth rate, with any current multiple for the ROE method or any
\* list of historical multiples for the EPS method.
InitMultiple ==
    /\ \/ /\ pc = "pe8"
          /\ current_pe \in CurrentPes
          /\ pe_data = << >>
       \/ /\ pc = "pe9"
          /\ current_pe = None
          /\ pe_data \in Tables(HistoricalPes, MaxObs)
    /\ \E g \in GrowthRates : projected_growth_rate = Some(g)
    /\ eps_data = << >>
    /\ growth_rates = << >>
    /\ method = "conservative"
    /\ current_price = None
    /\ roe_avg = None
    /\ payout_ratio_avg = None
    /\ eps_payout_ratio_avg = None
    /\ future_pe = None
    /\ roe_projection = None
    /\ eps_projection = None
    /\ dividend_per_share = None
    /\ future_price = None
    /\ ReconIdle
    /\ RunnerIdle
    /\ RoeIdle

NextMultiple == EstimateRoeMultiple \/ EstimateEpsMultiple

SpecMultiple == InitMultiple /\ [][NextMultiple]_vars

----------------------------------------------------------------------------
(* step8.py, step9.py: the two projectors and the admission gate *)

\* years=10 of the two calls of main
Horizon == 10

\* A numpy float: a finite number, an infinity or nan.
Finite(x) == [kind |-> "finite", v |-> <<x>>]

Inf == [kind |-> "inf", v |-> << >>]

NegInf == [kind |-> "-inf", v |-> << >>]

NaN == [kind |-> "nan", v |-> << >>]

\* The gain in dollars instead of the ratio.
NumpyDivide_Subtracts(x, price) == Finite(FSub(x, FInt(price)))

\* x / current_price where current_price is a numpy float: a division by
\* zero yields an infinity or nan (with a warning), not an exception.
NumpyDivide(x, price) ==
    IF price # 0 THEN Finite(FDiv(x, FInt(price)))
    ELSE IF x.n > 0 THEN Inf
    ELSE IF x.n < 0 THEN NegInf
    ELSE NaN

\* ratio - 1
TotalReturn(ratio) ==
    IF ratio.kind = "finite" THEN Finite(FSub(ratio.v[1], FInt(1))) ELSE ratio

\* ratio ** (1/years) - 1.  The root of a ratio r >= 0 is kept as the pair
\* (r, years); the power of a negative number is nan, that of either
\* infinity is +inf.
AnnualizedReturn(ratio, years) ==
    IF ratio.kind = "finite"
    THEN IF ratio.v[1].n < 0 THEN NaN
         ELSE [kind |-> "root", v |-> ratio.v, years |-> years]
    ELSE IF ratio.kind = "nan" THEN NaN
    ELSE Inf

\* annualized_return >= threshold, where base is 1 + threshold: the root
\* of r is at least the threshold when r >= base ^ years.
AnnualizedAtLeast(annualized, base) ==
    IF annualized.kind = "root" THEN AtLeastPower(annualized.v[1], base, annualized.years)
    ELSE annualized.kind = "inf"

\* annualized_return >= 0.15
ProjectionMeets15(annualized) == AnnualizedAtLeast(annualized, Frac(23, 20))

\* The admission made with the threshold of the higher tier.
ProjectionMeets12_Above15(annualized) == ProjectionMeets15(annualized)

\* annualized_return >= 0.12
ProjectionMeets12(annualized) == AnnualizedAtLeast(annualized, Frac(28, 25))

\* The flat annuity whatever the growth rate.
TotalDividends_Flat(dividend, growth, years) == FMul(dividend, FInt(years))

\* step8.py, lines 200-205: the dividends of the period
TotalDividends(dividend, growth, years) ==
    IF growth.n > 0
    THEN FMul(dividend, FDiv(FSub(FPow(FAdd(FInt(1), growth), years), FInt(1)), growth))
    ELSE FMul(dividend, FInt(years))

\* step8.py, lines 207-212: total_future_value, total_return and
\* annualized_return
RoeReturns(dividend, growth, years, future_stock_price, price) ==
    LET total_dividends == TotalDividends(dividend, growth, years)
        total_future_value == FAdd(future_stock_price, total_dividends)
        ratio == NumpyDivide(total_future_value, price)
    IN  Returns([total_dividends |-> total_dividends,
                 total_future_value |-> total_future_value,
                 total_return |-> TotalReturn(ratio),
                 annualized_return |-> AnnualizedReturn(ratio, years)])

\* The dividend of one year for the dividends of the period.
EpsTotalDividends_OneYear(dividend, growth, years) == dividend

\* step9.py, lines 251-256: the dividends of the period
EpsTotalDividends(dividend, growth, years) ==
    IF growth.n > 0
    THEN FMul(dividend, FDiv(FSub(FPow(FAdd(FInt(1), growth), years), FInt(1)), growth))
    ELSE FMul(dividend, FInt(years))

\* A projector that never finds the projection degenerate.
DegenerateProjection_Never(total_future_value, price) == FALSE

\* step9.py, line 261: total_future_value <= current_price
DegenerateProjection(total_future_value, price) == FLe(total_future_value, FInt(price))

\* step9.py, lines 258-265: total_future_value, the guard, total_return and
\* annualized_return
EpsReturns(dividend, growth, years, future_stock_price, price) ==
    LET total_dividends == EpsTotalDividends(dividend, growth, years)
        total_future_value == FAdd(future_stock_price, total_dividends)
        ratio == NumpyDivide(total_future_value, price)
    IN  IF DegenerateProjection(total_future_value, price) THEN ReturnsNothing
        ELSE Returns([total_dividends |-> total_dividends,
                      total_future_value |-> total_future_value,
                      total_return |-> TotalReturn(ratio),
                      annualized_return |-> AnnualizedReturn(ratio, years)])

\* calculate_projected_return.  divisors lists the denominators of the
\* divisions it executes, in order: lines 185, 196, 202 (when growth > 0),
\* 209 and 212.
calculate_projected_return(price, equity, shares, roe, payout, pe, years) ==
    LET retention_ratio == calculate_retention_ratio(payout)
        growth_rate == EquityGrowthRate(roe, retention_ratio)
        future_equity == FMul(FInt(equity), FPow(FAdd(FInt(1), growth_rate), years))
        future_book_value_per_share == FDiv(future_equity, FInt(shares))
        future_eps == FMul(future_book_value_per_share, roe)
        multiple == estimate_future_pe_ratio(pe, growth_rate)
        future_stock_price == FMul(future_eps, multiple)
        current_eps == FDiv(FMul(FInt(equity), roe), FInt(shares))
        current_dividend_per_share == FMul(current_eps, payout)
        returns == RoeReturns(current_dividend_per_share, growth_rate, years,
                              future_stock_price, price).value[1]
    IN  [retention_ratio |-> retention_ratio,
         equity_growth_rate |-> growth_rate,
         future_pe |-> multiple,
         future_stock_price |-> future_stock_price,
         current_dividend_per_share |-> current_dividend_per_share,
         total_dividends |-> returns.total_dividends,
         total_future_value |-> returns.total_future_value,
         total_return |-> returns.total_return,
         annualized_return |-> returns.annualized_return,
         divisors |-> <<FInt(shares), FInt(shares)>>
                         \o (IF growth_rate.n > 0 THEN <<growth_rate>> ELSE << >>)
                         \o <<FInt(price), FInt(price)>>]

\* max(eps_data.keys())
LatestYear(data) == CHOOSE y \in DOMAIN data : \A z \in DOMAIN data : z <= y

\* calculate_eps_projected_return: None when the latest EPS is not
\* positive or the projection is degenerate; the StatisticsError of
\* estimate_future_pe_ratio propagates.
calculate_eps_projected_return(price, data, pes, payout, growth, years) ==
    LET current_eps == FInt(data[LatestYear(data)])
        future_eps == FMul(current_eps, FPow(FAdd(FInt(1), growth), years))
        multiple == estimate_future_pe_ratio_eps(pes, growth)
        future_stock_price == FMul(future_eps, multiple.value[1])
        current_dividend_per_share == FMul(current_eps, payout)
        returns == EpsReturns(current_dividend_per_share, growth, years,
                              future_stock_price, price)
    IN  IF current_eps.n <= 0 THEN ReturnsNothing
        ELSE IF multiple.kind # "value" THEN multiple
        ELSE IF returns.kind # "value" THEN returns
        ELSE Returns([current_eps |-> current_eps,
                      projected_growth_rate |-> growth,
                      future_eps |-> future_eps,
                      future_pe |-> multiple.value[1],
                      future_stock_price |-> future_stock_price,
                      current_dividend_per_share |-> current_dividend_per_share,
                      total_dividends |-> returns.value[1].total_dividends,
                      total_future_value |-> returns.value[1].total_future_value,
                      total_return |-> returns.value[1].total_return,
                      annualized_return |-> returns.value[1].annualized_return,
                      divisors |-> (IF growth.n > 0 THEN <<growth>> ELSE << >>)
                                      \o <<FInt(price), FInt(price)>>])

\* step9.main, lines 356-358: current_price / eps of the years with a
\* positive EPS, in the order of the years.
RECURSIVE PeData(_, _, _)
PeData(price, data, sorted_years) ==
    IF sorted_years = << >> THEN << >>
    ELSE (IF data[Head(sorted_years)] > 0
          THEN <<FDiv(FInt(price), FInt(data[Head(sorted_years)]))>>
          ELSE << >>) \o PeData(price, data, Tail(sorted_years))

\* The result row of a ticker that is admitted.
ResultRow(how, projection) ==
    [Method |-> how,
     Ticker |-> "A",
     Total_Return_10yr |-> projection.total_return,
     Annualized_Return |-> projection.annualized_return,
     Meets_15_Percent |-> ProjectionMeets15(projection.annualized_return),
     Meets_12_Percent |-> ProjectionMeets12(projection.annualized_return)]

\* step8.main, lines 380 and 413; step9.main, lines 435 and 468
PerformanceStatus(row) == IF row.Meets_15_Percent THEN "Excellent" ELSE "Acceptable"

\* Inputs of the projection of one ticker.
ProjectorPrices == {-10, 0, 5, 10}

ProjectorEquities == {8}

ProjectorShares == {-4, 4}

RoeAverages == {Frac(-1, 2), Frac(1, 2), FInt(1)}

PayoutAverages == {FInt(0), Frac(1, 2), FInt(1)}

NetIncomes2022 == {-8, 6, 8}

ProjectorEpsValues == {-1, 1}

ProjectorEpsSeries ==
    UNION {[Y -> ProjectorEpsValues] : Y \in {{2021, 2022}, {2020, 2021, 2022}}}

\* step8.main, lines 343-387: the projection of a ticker that has its
\* averages and its 2022 data, and its admission.
ProjectRoe ==
    /\ pc = "project8"
    /\ LET projection == calculate_projected_return(current_price[1], current_equity[1],
                             current_shares[1], roe_avg[1], payout_ratio_avg[1],
                             current_pe, Horizon)
       IN  /\ roe_projection' = Returns(projection)
           /\ equity_growth_rate' = Some(projection.equity_growth_rate)
           /\ results' = IF ProjectionMeets12(projection.annualized_return)
                         THEN Append(results, ResultRow("ROE", projection))
                         ELSE results
    /\ pc' = "project9"
    /\ UNCHANGED <<current_price, current_pe, roe_avg, payout_ratio_avg>>
    /\ UNCHANGED <<dividend_per_share, future_price, eps_payout_ratio_avg, pe_data, future_pe, eps_projection>>
    /\ UNCHANGED <<year_pos, roe_values, payout_ratios, current_equity, current_shares>>
    /\ UNCHANGED <<tickers, idx, roe_csv, eps_csv>>
    /\ UNCHANGED <<reconVars, growthVars>>

\* The projection made whatever the number of years of the series.
Step9Projection_NoMinimumYears(price, data, payout) ==
    LET rates == calculate_eps_growth_rates(data)
        growth == estimate_future_eps_growth(rates, "conservative")
    IN  IF rates = << >> THEN None
        ELSE Some(calculate_eps_projected_return(price, data,
                      PeData(price, data, SortedYears(DOMAIN data)), payout, growth, Horizon))

\* step9.main, lines 356-358 and 366-442, of one ticker: what the ticker
\* loop makes of the EPS series: nothing (too few years, no growth
\* observation), or the value of calculate_eps_projected_return.
Step9Projection(price, data, payout) ==
    LET rates == calculate_eps_growth_rates(data)
        growth == estimate_future_eps_growth(rates, "conservative")
    IN  IF Cardinality(DOMAIN data) < 3 THEN None
        ELSE IF rates = << >> THEN None
        ELSE Some(calculate_eps_projected_return(price, data,
                      PeData(price, data, SortedYears(DOMAIN data)), payout, growth, Horizon))

\* step9.main, lines 356-358 and 366-442: the screen, the projection and
\* the admission of one ticker.  An exception raised in the projection is
\* caught (line 440) and the ticker is dropped.
ProjectEps ==
    /\ pc = "project9"
    /\ pe_data' = PeData(current_price[1], eps_data, SortedYears(DOMAIN eps_data))
    /\ IF Cardinality(DOMAIN eps_data) < 3
       THEN UNCHANGED <<growth_rates, projected_growth_rate>>
       ELSE /\ growth_rates' = calculate_eps_growth_rates(eps_data)
            /\ IF growth_rates' = << >>
               THEN UNCHANGED projected_growth_rate
               ELSE projected_growth_rate' =
                        Some(estimate_future_eps_growth(growth_rates', "conservative"))
    /\ LET Admit(outcome) ==
               /\ eps_projection' = IF outcome = None THEN None ELSE outcome[1]
               /\ results' = IF outcome = None THEN results
                             ELSE IF outcome[1].kind # "value" THEN results
                             ELSE IF ProjectionMeets12(outcome[1].value[1].annualized_return)
                             THEN Append(results, ResultRow("EPS", outcome[1].value[1]))
                             ELSE results
       IN  Admit(Step9Projection(current_price[1], eps_data, eps_payout_ratio_avg[1]))
    /\ pc' = "project_done"
    /\ UNCHANGED <<current_price, current_pe, roe_avg, payout_ratio_avg>>
    /\ UNCHANGED <<dividend_per_share, future_price, eps_payout_ratio_avg, future_pe, roe_projection>>
    /\ UNCHANGED <<eps_data, method, roeVars>>
    /\ UNCHANGED <<tickers, idx, roe_csv, eps_csv>>
    /\ UNCHANGED reconVars

\* One ticker with a price, with the averages and the 2022 data of the ROE
\* method, and with the EPS series and the average payout of the EPS
\* method.
InitProjector ==
    /\ pc = "project8"
    /\ \E price \in ProjectorPrices, shares \in ProjectorShares, net_income \in NetIncomes2022 :
          /\ current_price = Some(price)
          /\ current_shares = Some(shares)
          /\ current_pe = CurrentPe(price, net_income, shares)
    /\ \E equity \in ProjectorEquities : current_equity = Some(equity)
    /\ \E roe \in RoeAverages : roe_avg = Some(roe)
    /\ \E payout \in PayoutAverages : payout_ratio_avg = Some(payout)
    /\ \E payout \in PayoutAverages : eps_payout_ratio_avg = Some(payout)
    /\ eps_data \in ProjectorEpsSeries
    /\ growth_rates = << >>
    /\ method = "conservative"
    /\ projected_growth_rate = None
    /\ pe_data = << >>
    /\ future_pe = None
    /\ roe_projection = None
    /\ eps_projection = None
    /\ dividend_per_share = None
    /\ future_price = None
    /\ year_pos = 1
    /\ roe_values = << >>
    /\ payout_ratios = << >>
    /\ equity_growth_rate = None
    /\ ReconIdle
    /\ RunnerIdle

NextProjector == ProjectRoe \/ ProjectEps

SpecProjector == InitProjector /\ [][NextProjector]_vars

\* One ticker in either phase of a Method Runner: the collection of its
\* fundamentals, or its projection and admission.
InitRunners == InitRoe \/ InitProjector

NextRunners == NextRoe \/ NextProjector

SpecRunners == InitRunners /\ [][NextRunners]_vars

\* The inputs of the return formulas the two projectors share.
Dividends == {FInt(0), Frac(1, 2), FInt(1), FInt(2)}

FormulaGrowthRates == {Frac(-1, 2), FInt(0), Frac(1, 5), Frac(1, 4), Frac(1, 2), FInt(1)}

FuturePrices == {FInt(-5), FInt(0), FInt(6), FInt(12), FInt(50), FInt(100)}

FormulaPrices == {-10, 0, 5, 10, 20}

\* step8.py, lines 200-212, applied to a dividend per share, a growth rate,
\* a future price and a current price.
ApplyRoeReturns ==
    /\ pc = "formulas"
    /\ roe_projection = None
    /\ roe_projection' = RoeReturns(dividend_per_share[1], projected_growth_rate[1],
                                    Horizon, future_price[1], current_price[1])
    /\ UNCHANGED <<pc, current_price, current_pe, roe_avg, payout_ratio_avg>>
    /\ UNCHANGED <<dividend_per_share, future_price, eps_payout_ratio_avg, pe_data,
                   future_pe, eps_projection>>
    /\ UNCHANGED <<reconVars, runnerVars, growthVars, roeVars>>

\* step9.py, lines 251-265, applied to the same.
ApplyEpsReturns ==
    /\ pc = "formulas"
    /\ eps_projection = None
    /\ eps_projection' = EpsReturns(dividend_per_share[1], projected_growth_rate[1],
                                    Horizon, future_price[1], current_price[1])
    /\ UNCHANGED <<pc, current_price, current_pe, roe_avg, payout_ratio_avg>>
    /\ UNCHANGED <<dividend_per_share, future_price, eps_payout_ratio_avg, pe_data,
                   future_pe, roe_projection>>
    /\ UNCHANGED <<reconVars, runnerVars, growthVars, roeVars>>

InitFormulas ==
    /\ pc = "formulas"
    /\ \E dividend \in Dividends : dividend_per_share = Some(dividend)
    /\ \E g \in FormulaGrowthRates : projected_growth_rate = Some(g)
    /\ \E price \in FuturePrices : future_price = Some(price)
    /\ \E price \in FormulaPrices : current_price = Some(price)
    /\ eps_data = << >>
    /\ growth_rates = << >>
    /\ method = "conservative"
    /\ current_pe = None
    /\ roe_avg = None
    /\ payout_ratio_avg = None
    /\ eps_payout_ratio_avg = None
    /\ pe_data = << >>
    /\ future_pe = None
    /\ roe_projection = None
    /\ eps_projection = None
    /\ ReconIdle
    /\ RunnerIdle
    /\ RoeIdle

NextFormulas == ApplyRoeReturns \/ ApplyEpsReturns

SpecFormulas == InitFormulas /\ [][NextFormulas]_vars

----------------------------------------------------------------------------
(* step8.py, step9.py: the two runs over a batch of tickers.  The facts   *)
(* and the price of a ticker are what the data sources hold for it: a      *)
(* function of the ticker.                                                 *)

BatchTickers == {"A", "B", "C", "D", "E", "F"}

Batches == Tables(BatchTickers, MaxTickers)

\* A fact reported with the same value for every year, or for the years
\* from a first year on.
Every(v) == [y \in YearsToAnalyze |-> Some(v)]

Since(first, v) == [y \in YearsToAnalyze |-> IF y >= first THEN Some(v) ELSE None]

\* get_company_facts with get_latest_value and get_shares_outstanding:
\* the yearly facts of six companies.  A and E earn 4 on an equity of 8
\* and pay it all out; B is A with a negative equity in 2020; C reports
\* from 2021 on, F for 2022 only; D has an equity of 16.
get_company_facts(ticker) ==
    CASE ticker = "B" ->
            [net_income |-> Every(4), equity |-> [Every(8) EXCEPT ![2020] = Some(-8)],
             shares |-> Every(4), dividends |-> Every(4)]
      [] ticker = "C" ->
            [net_income |-> Since(2021, 4), equity |-> Since(2021, 8),
             shares |-> Since(2021, 4), dividends |-> Since(2021, 4)]
      [] ticker = "D" ->
            [net_income |-> Every(4), equity |-> Every(16),
             shares |-> Every(4), dividends |-> Every(4)]
      [] ticker = "F" ->
            [net_income |-> Since(2022, 4), equity |-> Since(2022, 8),
             shares |-> Since(2022, 4), dividends |-> Since(2022, 4)]
      [] OTHER ->
            [net_income |-> Every(4), equity |-> Every(8),
             shares |-> Every(4), dividends |-> Every(4)]

\* get_stock_price_dec_2022
get_stock_price_dec_2022(ticker) ==
    CASE ticker = "D" -> 20
      [] ticker = "E" -> 2
      [] OTHER -> 4

\* step8.main, line 306: the year has its three facts, none of them 0.
UsableYear(facts, year) ==
    Truthy(facts.net_income[year]) /\ Truthy(facts.equity[year]) /\ Truthy(facts.shares[year])

\* step8.main, line 323: the print raises TypeError in a year that passes
\* line 306 and whose roe is None.
RoePrintFails(facts, years) ==
    \E i \in 1..Len(years) :
        calculate_roe(facts.net_income[years[i]], facts.equity[years[i]]) = None

\* step8.main, lines 273-389, of one ticker: the row it appends to
\* results, nothing (a continue, or a return below 12%), or the TypeError
\* of line 323, which no handler catches.
Step8Outcome(ticker) ==
    LET facts == get_company_facts(ticker)
        price == get_stock_price_dec_2022(ticker)
        years == SelectSeq(Step8Years, LAMBDA y : UsableYear(facts, y))
        roes == [i \in 1..Len(years) |->
                    calculate_roe(facts.net_income[years[i]], facts.equity[years[i]])[1]]
        payouts == [i \in 1..Len(years) |->
                       calculate_payout_ratio(facts.dividends[years[i]],
                                              facts.net_income[years[i]])]
        Admit(projection) ==
            IF ProjectionMeets12(projection.annualized_return)
            THEN Returns([ResultRow("ROE", projection) EXCEPT !.Ticker = ticker])
            ELSE ReturnsNothing
    IN  IF RoePrintFails(facts, years) THEN RaisesError("TypeError")
        ELSE IF Len(years) < 2 \/ ~UsableYear(facts, 2022) THEN ReturnsNothing
        ELSE Admit(calculate_projected_return(price, facts.equity[2022][1],
                       facts.shares[2022][1], Mean(roes), Mean(payouts),
                       CurrentPe(price, facts.net_income[2022][1], facts.shares[2022][1]),
                       Horizon))

\* step9.main, line 351: the years with an EPS.
EpsYears(facts) ==
    {y \in YearsToAnalyze : /\ facts.net_income[y] # None
                             /\ facts.shares[y] # None
                             /\ facts.shares[y][1] > 0}

\* step9.main, lines 320-442, of one ticker: the row it appends to
\* results, or nothing.  The net incomes are multiples of the shares, so
\* that the EPS of a year is a whole number of dollars.
Step9Outcome(ticker) ==
    LET facts == get_company_facts(ticker)
        price == get_stock_price_dec_2022(ticker)
        data == [y \in EpsYears(facts) |-> facts.net_income[y][1] \div facts.shares[y][1]]
        years == SortedYears(EpsYears(facts))
        payouts == [i \in 1..Len(years) |->
                       calculate_payout_ratio(facts.dividends[years[i]],
                                              facts.net_income[years[i]])]
        Admit(outcome) ==
            IF outcome = None THEN ReturnsNothing
            ELSE IF outcome[1].kind # "value" THEN ReturnsNothing
            ELSE IF ProjectionMeets12(outcome[1].value[1].annualized_return)
            THEN Returns([ResultRow("EPS", outcome[1].value[1]) EXCEPT !.Ticker = ticker])
            ELSE ReturnsNothing
    IN  IF years = << >> THEN ReturnsNothing
        ELSE Admit(Step9Projection(price, data, Mean(payouts)))

\* a >= b of two annualized returns of admitted rows: roots of the same
\* degree, or +inf.
ReturnGe(a, b) ==
    IF a.kind = "inf" THEN TRUE
    ELSE IF b.kind = "inf" THEN FALSE
    ELSE FGe(a.v[1], b.v[1])

\* results_df.sort_values('Annualized_Return', ascending=False), of the
\* rows of a runner: descending, rows with equal returns in any order.
SortRunnerRows(rows) ==
    LET n == Len(rows)
        P == {p \in [1..n -> 1..n] : \A i, j \in 1..n : i # j => p[i] # p[j]}
    IN  { [i \in 1..n |-> rows[p[i]]] :
            p \in {q \in P : \A i, j \in 1..n :
                       i < j => ReturnGe(rows[q[i]].Annualized_Return,
                                         rows[q[j]].Annualized_Return)} }

\* step8.main, lines 273-389: one ticker of the loop.
Batch8Ticker ==
    /\ pc = "batch8"
    /\ idx <= Len(tickers)
    /\ LET Take(outcome) ==
              IF outcome.kind = "TypeError"
              THEN pc' = "crashed" /\ UNCHANGED <<idx, results>>
              ELSE /\ results' = IF outcome.kind = "value"
                                 THEN Append(results, outcome.value[1])
                                 ELSE results
                   /\ idx' = idx + 1
                   /\ UNCHANGED pc
       IN  Take(Step8Outcome(tickers[idx]))
    /\ UNCHANGED <<tickers, roe_csv, eps_csv, reconVars, growthVars, roeVars, projVars>>

\* step8.main, lines 391-398
Batch8Write ==
    /\ pc = "batch8"
    /\ idx > Len(tickers)
    /\ IF results = << >> THEN UNCHANGED roe_csv
       ELSE \E sorted \in SortRunnerRows(results) : roe_csv' = File(sorted)
    /\ pc' = "batch9"
    /\ idx' = 1
    /\ results' = << >>
    /\ UNCHANGED <<tickers, eps_csv, reconVars, growthVars, roeVars, projVars>>

\* step9.main, lines 320-444: one ticker of the loop over the tickers of
\* roe_projection_filtered_stocks.csv.
Batch9Ticker ==
    /\ pc = "batch9"
    /\ roe_csv.exists
    /\ idx <= Len(roe_csv.rows)
    /\ LET Take(outcome) ==
              results' = IF outcome.kind = "value"
                         THEN Append(results, outcome.value[1])
                         ELSE results
       IN  Take(Step9Outcome(roe_csv.rows[idx].Ticker))
    /\ idx' = idx + 1
    /\ UNCHANGED <<pc, tickers, roe_csv, eps_csv, reconVars, growthVars, roeVars, projVars>>

\* step9.main, lines 283-293 and 446-453
Batch9Write ==
    /\ pc = "batch9"
    /\ ~roe_csv.exists \/ idx > Len(roe_csv.rows)
    /\ IF results = << >> THEN UNCHANGED eps_csv
       ELSE \E sorted \in SortRunnerRows(results) : eps_csv' = File(sorted)
    /\ pc' = "batch_done"
    /\ idx' = 1
    /\ results' = << >>
    /\ UNCHANGED <<tickers, roe_csv, reconVars, growthVars, roeVars, projVars>>

\* roe_projection_filtered_stocks.csv as an earlier run of step8.py, on
\* the ticker E, left it.
EarlierRoeCsv == File(<<Step8Outcome("E").value[1]>>)

\* A batch of tickers; the working directory is empty, or holds the file
\* of an earlier run.
InitBatch ==
    /\ pc = "batch8"
    /\ tickers \in Batches
    /\ idx = 1
    /\ results = << >>
    /\ roe_csv \in {NoFile, EarlierRoeCsv}
    /\ eps_csv = NoFile
    /\ ReconIdle
    /\ GrowthIdle
    /\ RoeIdle
    /\ ProjectorIdle

NextBatch == Batch8Ticker \/ Batch8Write \/ Batch9Ticker \/ Batch9Write

SpecBatch == InitBatch /\ [][NextBatch]_vars

----------------------------------------------------------------------------
(* Properties of the Reconciler *)

\* The return a sheet holds for a ticker: that of its last row carrying the
\* ticker in any letter case.
SheetReturn(df, ticker) ==
    LET I == {i \in 1..Len(df) : Upper(df[i].Ticker) = ticker}
    IN  df[CHOOSE i \in I : \A j \in I : j <= i].Annualized_Return

InSheet(df, ticker) == \E i \in 1..Len(df) : Upper(df[i].Ticker) = ticker

OutputTickers == {qualified_stocks[i].Ticker : i \in 1..Len(qualified_stocks)}

\* Two spellings of one ticker.
SameTicker(x, y) ==
    \/ x = y
    \/ {x, y} = {"A", "a"}
    \/ {x, y} = {"B", "b"}
    \/ {x, y} = {"C", "c"}

Holds(df, ticker) == \E i \in 1..Len(df) : SameTicker(df[i].Ticker, ticker)

\* C1: every ticker of the Reconciler's output (combine_return_estimates
\* followed by main's filter) is a ticker of the ROE-method sheet and of the
\* EPS-method sheet; a ticker that only one of the two sheets holds is never
\* in the output.  A ticker is the same ticker in any letter case.
C1_IntersectionOnly ==
    /\ \A t \in OutputTickers : Holds(roe_df, t) /\ Holds(eps_df, t)
    /\ \A i \in 1..Len(combined_results.rows) :
          /\ Holds(roe_df, combined_results.rows[i].Ticker)
          /\ Holds(eps_df, combined_results.rows[i].Ticker)

C1_Witness ==
    /\ pc = "done"
    /\ OutputTickers = {"A"}
    /\ Holds(roe_df, "B")
    /\ ~Holds(eps_df, "B")

\* C2: the final output is in descending order of Average_Return, and two
\* tickers with equal Average_Return are in ascending lexical ticker order.
C2_RankedTiesByTicker ==
    \A i, j \in 1..Len(qualified_stocks) :
        i < j =>
            \/ qualified_stocks[i].Average_Return > qualified_stocks[j].Average_Return
            \/ /\ qualified_stocks[i].Average_Return = qualified_stocks[j].Average_Return
               /\ TickerOrd(qualified_stocks[i].Ticker) < TickerOrd(qualified_stocks[j].Ticker)

\* C3: for every common ticker the Reconciler processes after the two
\* Method Runners, max(roe_return, eps_return) is strictly positive, so the
\* division of the agreement score is never by a non-positive number (and
\* never raises), and the agreement score lies in [0, 1].
C3_PositiveDenominator ==
    /\ pc # "crashed"
    /\ pc \in {"loaded", "combined", "done"} =>
          \A t \in {"A", "B", "C"} :
              InSheet(roe_df, t) /\ InSheet(eps_df, t) =>
                  \/ SheetReturn(roe_df, t) > 0
                  \/ SheetReturn(eps_df, t) > 0
    /\ \A i \in 1..Len(combined_results.rows) :
          LET a == combined_results.rows[i].Return_Agreement
          IN  0 <= a.n /\ a.n <= a.d

C3_Witness ==
    /\ pc = "done"
    /\ tickers # << >>
    /\ \E i \in 1..Len(qualified_stocks) :
          /\ qualified_stocks[i].ROE_Method_Return = 360
          /\ qualified_stocks[i].EPS_Method_Return = 280
          /\ qualified_stocks[i].Return_Agreement = [n |-> 7, d |-> 9]

\* |return_a - return_b| / max(return_a, return_b) of a combined record.
RelativeDifference(r) ==
    Frac(Abs(r.ROE_Method_Return - r.EPS_Method_Return),
         Max2(r.ROE_Method_Return, r.EPS_Method_Return))

PositiveReturns(r) == r.ROE_Method_Return > 0 /\ r.EPS_Method_Return > 0

\* C4: the agreement score of a combined record is exactly 1 when its two
\* returns are identical, and of two records with positive returns the one
\* with the larger |return_a - return_b| / max(return_a, return_b) has the
\* strictly smaller agreement score.
C4_AgreementScore ==
    LET rows == combined_results.rows
    IN  /\ \A i \in 1..Len(rows) :
              rows[i].ROE_Method_Return = rows[i].EPS_Method_Return
                  => rows[i].Return_Agreement = FInt(1)
        /\ \A i, j \in 1..Len(rows) :
              /\ PositiveReturns(rows[i])
              /\ PositiveReturns(rows[j])
              /\ FLt(RelativeDifference(rows[i]), RelativeDifference(rows[j]))
              => FGt(rows[i].Return_Agreement, rows[j].Return_Agreement)

C4_Witness ==
    LET rows == combined_results.rows
    IN  /\ Len(rows) = 2
        /\ rows[1].ROE_Method_Return = rows[1].EPS_Method_Return
        /\ rows[1].Return_Agreement = FInt(1)
        /\ PositiveReturns(rows[1])
        /\ PositiveReturns(rows[2])
        /\ FLt(RelativeDifference(rows[1]), RelativeDifference(rows[2]))

\* C5: when the Reconciler has run to its end, a common ticker is in the
\* final ranked output if and only if the mean of its two returns is at
\* least 0.12.
C5_Admission ==
    pc = "done" =>
        \A t \in {"A", "B", "C"} :
            InSheet(roe_df, t) /\ InSheet(eps_df, t) =>
                (t \in OutputTickers
                    <=> SheetReturn(roe_df, t) + SheetReturn(eps_df, t) >= 2 * 240)

C5_Witness ==
    /\ pc = "done"
    /\ InSheet(roe_df, "A") /\ InSheet(eps_df, "A")
    /\ InSheet(roe_df, "B") /\ InSheet(eps_df, "B")
    /\ SheetReturn(roe_df, "A") + SheetReturn(eps_df, "A") = 2 * 240
    /\ SheetReturn(roe_df, "B") + SheetReturn(eps_df, "B") < 2 * 240
    /\ OutputTickers = {"A"}

\* C6: every combined record has Average_Return = (return_a + return_b)/2
\* and Return_Difference = |return_a - return_b|, and is flagged for the 15%
\* tier ("Excellent") exactly when Average_Return >= 0.15 ("Acceptable"
\* otherwise); ROE return 0.18 and EPS return 0.14 give average 0.16,
\* difference 0.04, agreement 1 - 0.04/0.18 = 7/9 in the medium band, and
\* the 15% tier.
C6_CombinedRecord ==
    \A i \in 1..Len(combined_results.rows) :
        LET r == combined_results.rows[i]
            a == SheetReturn(roe_df, r.Ticker)
            b == SheetReturn(eps_df, r.Ticker)
        IN  /\ r.ROE_Method_Return = a
            /\ r.EPS_Method_Return = b
            /\ 2 * r.Average_Return = a + b
            /\ r.Return_Difference = (IF a >= b THEN a - b ELSE b - a)
            /\ r.Meets_15_Percent <=> (a + b >= 2 * 300)
            /\ Status(r) = (IF a + b >= 2 * 300 THEN "Excellent" ELSE "Acceptable")
            /\ (a = 360 /\ b = 280) =>
                  /\ r.Average_Return = 320
                  /\ r.Return_Difference = 80
                  /\ r.Return_Agreement = [n |-> 7, d |-> 9]
                  /\ AgreementLevel(r.Return_Agreement) = "Medium"
                  /\ r.Meets_15_Percent
                  /\ Status(r) = "Excellent"

C6_Witness ==
    /\ pc = "done"
    /\ \E i \in 1..Len(qualified_stocks) :
          /\ qualified_stocks[i].Ticker = "A"
          /\ qualified_stocks[i].ROE_Method_Return = 360
          /\ qualified_stocks[i].EPS_Method_Return = 280
          /\ qualified_stocks[i].Average_Return = 320
    /\ \E i \in 1..Len(qualified_stocks) : ~qualified_stocks[i].Meets_15_Percent

\* C7: every agreement score has exactly one band: "High" above 0.80,
\* otherwise "Medium" above 0.60, otherwise "Low" (exactly 0.80 is Medium,
\* exactly 0.60 is Low); the summary counts use the same partition as the
\* label and add up to the number of qualified tickers.
C7_AgreementBands ==
    LET q == qualified_stocks
        Level(i) == AgreementLevel(q[i].Return_Agreement)
        Above(i, n, d) == q[i].Return_Agreement.n * d > n * q[i].Return_Agreement.d
        Labelled(l) == Cardinality({i \in 1..Len(q) : Level(i) = l})
    IN  /\ \A i \in 1..Len(q) :
              /\ Level(i) = "High"   <=> Above(i, 4, 5)
              /\ Level(i) = "Medium" <=> ~Above(i, 4, 5) /\ Above(i, 3, 5)
              /\ Level(i) = "Low"    <=> ~Above(i, 3, 5)
        /\ (pc = "done" /\ q # << >>) =>
              /\ summary.high_agreement = Labelled("High")
              /\ summary.medium_agreement = Labelled("Medium")
              /\ summary.low_agreement = Labelled("Low")
              /\ summary.high_agreement + summary.medium_agreement
                    + summary.low_agreement = Len(q)

C7_Witness ==
    /\ pc = "done"
    /\ Len(qualified_stocks) = 2
    /\ qualified_stocks[1].Return_Agreement = [n |-> 3, d |-> 5]
    /\ qualified_stocks[2].Return_Agreement = [n |-> 4, d |-> 5]
    /\ summary.medium_agreement = 1
    /\ summary.low_agreement = 1

\* C25: combine_return_estimates leaves its two inputs unchanged: the call
\* made on the two loaded tables leaves each with the rows, the tickers
\* and the values it had.
C25_InputsUnchanged ==
    [][pc = "loaded" => (roe_df' = roe_df /\ eps_df' = eps_df)]_vars

\* The call has been made on tables with a lower-case ticker, and has
\* combined something.
C25_Witness ==
    /\ pc = "combined"
    /\ combined_results.kind = "list"
    /\ \E i \in 1..Len(roe_df) : roe_df[i].Ticker = "a"
    /\ \E i \in 1..Len(eps_df) : eps_df[i].Ticker = "a"
    /\ combined_results.rows[1].Ticker = "A"

\* Every row of the table has passed the admission gate of a Method
\* Runner.
RunnerOutput(df) == \A i \in 1..Len(df) : df[i].Annualized_Return >= Pct12

\* C26: when every row of both input tables has an annualized return of
\* at least 0.12, the Reconciler does not fail, every combined record has
\* an average return of at least 0.12, the admission filter removes
\* nothing, and the ranked output holds exactly the tickers common to the
\* two tables.
C26_FilterRemovesNothing ==
    (RunnerOutput(roe_df) /\ RunnerOutput(eps_df)) =>
        /\ pc # "crashed"
        /\ \A i \in 1..Len(combined_results.rows) :
              /\ combined_results.rows[i].Average_Return >= Pct12
              /\ combined_results.rows[i].Meets_12_Percent
        /\ pc = "done" =>
              /\ Len(qualified_stocks) = Len(combined_results.rows)
              /\ \A t \in {"A", "B", "C"} :
                    t \in OutputTickers <=> (InSheet(roe_df, t) /\ InSheet(eps_df, t))

\* A common ticker, admitted in the lower tier, and a ticker that only one
\* table holds.
C26_Witness ==
    /\ pc = "done"
    /\ RunnerOutput(roe_df) /\ RunnerOutput(eps_df)
    /\ Len(roe_df) = 2 /\ Len(eps_df) = 2
    /\ OutputTickers = {"A"}
    /\ InSheet(roe_df, "B") /\ ~InSheet(eps_df, "B")
    /\ qualified_stocks[1].Average_Return < Pct15

\* The rows of a table that carry a ticker in any letter case.
RowsCarrying(df, ticker) == {i \in 1..Len(df) : Upper(df[i].Ticker) = ticker}

\* C28: the Reconciler matches the tickers of the two tables upper-cased
\* and combines at most one record per upper-cased ticker, one for each
\* ticker the two tables share in any letter case; when a table holds the
\* ticker more than once or in several letter cases, the record is made of
\* the last such row of the table.
C28_OneRecordPerUpperTicker ==
    combined_results.kind = "list" =>
        LET rows == combined_results.rows
        IN  /\ \A i, j \in 1..Len(rows) : i # j => rows[i].Ticker # rows[j].Ticker
            /\ \A i \in 1..Len(rows) : rows[i].Ticker \in {"A", "B", "C"}
            /\ \A t \in {"A", "B", "C"} :
                  (RowsCarrying(roe_df, t) # {} /\ RowsCarrying(eps_df, t) # {})
                      <=> \E i \in 1..Len(rows) : rows[i].Ticker = t
            /\ \A i \in 1..Len(rows) :
                  \E k \in RowsCarrying(roe_df, rows[i].Ticker),
                     l \in RowsCarrying(eps_df, rows[i].Ticker) :
                        /\ \A m \in RowsCarrying(roe_df, rows[i].Ticker) : m <= k
                        /\ \A m \in RowsCarrying(eps_df, rows[i].Ticker) : m <= l
                        /\ rows[i].ROE_Method_Return = roe_df[k].Annualized_Return
                        /\ rows[i].EPS_Method_Return = eps_df[l].Annualized_Return

\* The ROE table holds the ticker twice, in two letter cases and with two
\* returns; the record has the return of the second row.
C28_Witness ==
    /\ pc = "combined"
    /\ Len(roe_df) = 2
    /\ roe_df[1].Ticker = "A" /\ roe_df[1].Annualized_Return = 600
    /\ roe_df[2].Ticker = "a" /\ roe_df[2].Annualized_Return = 300
    /\ Len(combined_results.rows) = 1
    /\ combined_results.rows[1].Ticker = "A"
    /\ combined_results.rows[1].ROE_Method_Return = 300

\* C30: the more optimistic method of a combined record is "ROE" exactly
\* when roe_return > eps_return and "EPS Growth" otherwise; with equal
\* returns (agreement 1, difference 0) it is "EPS Growth", with unequal
\* returns it is the method whose return is the larger; the two counts of
\* the summary count these labels.
C30_MoreOptimisticLabel ==
    /\ \A i \in 1..Len(combined_results.rows) :
          LET r == combined_results.rows[i]
              label == r.More_Optimistic_Method
              larger == IF r.ROE_Method_Return >= r.EPS_Method_Return
                        THEN r.ROE_Method_Return ELSE r.EPS_Method_Return
          IN  /\ label \in {"ROE", "EPS Growth"}
              /\ label = "ROE" <=> r.ROE_Method_Return > r.EPS_Method_Return
              /\ r.ROE_Method_Return = r.EPS_Method_Return =>
                    /\ label = "EPS Growth"
                    /\ r.Return_Difference = 0
                    /\ r.Return_Agreement = FInt(1)
              /\ r.ROE_Method_Return # r.EPS_Method_Return =>
                    (IF label = "ROE" THEN r.ROE_Method_Return ELSE r.EPS_Method_Return)
                        = larger
    /\ (pc = "done" /\ qualified_stocks # << >>) =>
          /\ summary.roe_higher =
                Cardinality({i \in 1..Len(qualified_stocks) :
                    qualified_stocks[i].ROE_Method_Return
                        > qualified_stocks[i].EPS_Method_Return})
          /\ summary.roe_higher + summary.eps_higher = Len(qualified_stocks)

\* Two records in the output: one with equal returns, labelled
\* "EPS Growth", and one with the larger ROE return.
C30_Witness ==
    /\ pc = "done"
    /\ Len(qualified_stocks) = 2
    /\ \E i \in 1..2 :
          /\ qualified_stocks[i].ROE_Method_Return = 360
          /\ qualified_stocks[i].EPS_Method_Return = 360
          /\ qualified_stocks[i].More_Optimistic_Method = "EPS Growth"
    /\ summary.roe_higher = 1
    /\ summary.eps_higher = 1

----------------------------------------------------------------------------
(* Properties of the growth estimator *)

\* C8: estimate_future_eps_growth returns a value within the clamp bounds
\* of its method ([0, 0.20] for conservative, [0, 0.25] for average and
\* trend) for any list of observations, and 0.05 for the empty list
\* whatever the method.
C8_GrowthWithinClamp ==
    pc = "estimated" =>
        LET g == projected_growth_rate[1]
        IN  /\ growth_rates = << >> => (g.n = 1 /\ g.d = 20)
            /\ method = "conservative" => (0 <= g.n /\ 5 * g.n <= g.d)
            /\ method \in {"average", "trend"} => (0 <= g.n /\ 4 * g.n <= g.d)

C8_Witness ==
    /\ pc = "estimated"
    /\ method = "conservative"
    /\ growth_rates = <<[n |-> 1, d |-> 2], [n |-> -1, d |-> 10], [n |-> -1, d |-> 2]>>
    /\ projected_growth_rate = <<[n |-> 0, d |-> 1]>>

\* C9: the growth rate the ROE-compounding projection uses, average ROE x
\* retention ratio, is never negative and never above its cap of 0.20, for
\* any average ROE and average payout ratio the Method Runner produces.
C9_EquityGrowthWithinCap ==
    pc = "projected" =>
        LET g == equity_growth_rate[1]
        IN  0 <= g.n /\ 5 * g.n <= g.d

\* The years of the series that have an earlier year in the series and a
\* positive EPS: the later years of the pairs that yield an observation.
ObservedYears == {y \in DOMAIN eps_data : eps_data[y] > 0 /\ \E x \in DOMAIN eps_data : x < y}

PreviousYear(y) ==
    CHOOSE x \in DOMAIN eps_data : x < y /\ \A z \in DOMAIN eps_data : z < y => z <= x

\* C10: calculate_eps_growth_rates emits, for the pairs of consecutive years
\* of the series in ascending order, (curr - prev)/prev when both values are
\* positive, 0.50 when prev <= 0 and curr > 0, and nothing when curr <= 0;
\* so there are as many observations as pairs whose later value is positive.
C10_GrowthObservations ==
    (pc \in {"rates", "estimated"} /\ DOMAIN eps_data # {}) =>
        /\ Len(growth_rates) = Cardinality(ObservedYears)
        /\ \A y \in ObservedYears :
              LET g == growth_rates[Cardinality({x \in ObservedYears : x <= y})]
                  prev == eps_data[PreviousYear(y)]
                  curr == eps_data[y]
              IN  IF prev > 0 THEN g.n * prev = (curr - prev) * g.d
                  ELSE g.n = 1 /\ g.d = 2

C10_Witness ==
    /\ pc = "rates"
    /\ DOMAIN eps_data = {2019, 2020, 2021, 2022}
    /\ eps_data[2019] = 100
    /\ eps_data[2020] = -50
    /\ eps_data[2021] = 120
    /\ eps_data[2022] = 100
    /\ growth_rates = <<[n |-> 1, d |-> 2], [n |-> -1, d |-> 6]>>

\* The years of the series that have an earlier year in the series.
LaterYears == {y \in DOMAIN eps_data : \E x \in DOMAIN eps_data : x < y}

\* Every value of the series is positive and every year-over-year step
\* grows by the rate r: curr = prev * (1 + r).
ConstantGrowth(r) ==
    /\ LaterYears # {}
    /\ \A y \in DOMAIN eps_data : eps_data[y] > 0
    /\ \A y \in LaterYears :
          eps_data[y] * r.d = eps_data[PreviousYear(y)] * (r.d + r.n)

\* The rates a constant-growth series is looked for: 1/120, 1/11, 1/10,
\* 1/5, 21/100.
SteadyRates == {Frac(1, 120), Frac(1, 11), Frac(1, 10), Frac(1, 5), Frac(21, 100)}

\* C21: for a series of at least two strictly positive values whose
\* year-over-year growth is the same rate r at every step, 0 < r < 0.20,
\* the conservative estimate computed from the observations of the series
\* is r.
C21_ConstantGrowthRecovered ==
    (pc = "estimated" /\ method = "conservative") =>
        \A r \in SteadyRates :
            (ConstantGrowth(r) /\ r.n > 0 /\ 5 * r.n < r.d) =>
                projected_growth_rate = Some(r)

C21_Witness ==
    /\ pc = "estimated"
    /\ method = "conservative"
    /\ DOMAIN eps_data = {2019, 2020, 2022}
    /\ eps_data[2019] = 100
    /\ eps_data[2020] = 110
    /\ eps_data[2022] = 121
    /\ growth_rates = <<[n |-> 1, d |-> 10], [n |-> 1, d |-> 10]>>
    /\ projected_growth_rate = <<[n |-> 1, d |-> 10]>>

\* The value x clamped to [0, 0.25].
ClampedToQuarter(x) ==
    IF x.n < 0 THEN FInt(0) ELSE IF 4 * x.n > x.d THEN Frac(1, 4) ELSE x

\* C22: with the trend method and at least 3 observations the estimate is
\* (1 a + 2 b + 3 c)/6 of the last three observations a, b, c in
\* chronological order, whatever the earlier ones; with 1 or 2
\* observations it is their plain mean; clamped to [0, 0.25].
C22_TrendEstimate ==
    (pc = "estimated" /\ method = "trend" /\ growth_rates # << >>) =>
        LET n == Len(growth_rates)
            a == growth_rates[n - 2]
            b == growth_rates[n - 1]
            c == growth_rates[n]
            six == FAdd(a, FAdd(FAdd(b, b), FAdd(c, FAdd(c, c))))
            raw == IF n >= 3 THEN FMul(six, Frac(1, 6))
                   ELSE IF n = 2 THEN FMul(FAdd(b, c), Frac(1, 2))
                   ELSE c
        IN  projected_growth_rate = Some(ClampedToQuarter(raw))

\* Four observations, of which the first (0.50, the recovery from a loss)
\* is ignored, and an estimate strictly inside the clamp.
C22_Witness ==
    /\ pc = "estimated"
    /\ method = "trend"
    /\ Len(growth_rates) = 4
    /\ growth_rates[1] = [n |-> 1, d |-> 2]
    /\ growth_rates[2] = growth_rates[3]
    /\ growth_rates[4].n > 0
    /\ projected_growth_rate[1].n > 0
    /\ 4 * projected_growth_rate[1].n < projected_growth_rate[1].d

----------------------------------------------------------------------------
(* Properties of the future multiple *)

\* C17: the ROE-method future multiple is max(0.9 pe, 12) for growth above
\* 0.15, else max(0.85 pe, 10) for growth above 0.10, else max(0.8 pe, 8)
\* for growth above 0.05, else max(0.7 pe, 6), where an absent (or
\* non-positive) current multiple counts as 15; the thresholds are strict,
\* so a growth rate equal to a threshold is in the lower tier, and the
\* result is never below 6.
C17_TieredCompression ==
    pc = "pe8_done" =>
        LET g == projected_growth_rate[1]
            v == future_pe.value[1]
            pe == IF current_pe # None /\ current_pe[1].n > 0 THEN current_pe[1] ELSE FInt(15)
            Above(n, d) == g.n * d > n * g.d
            \* v is the larger of pe * mn / md and floor
            Compressed(mn, md, floor) ==
                /\ v.n * pe.d * md >= pe.n * mn * v.d
                /\ v.n >= floor * v.d
                /\ v.n * pe.d * md = pe.n * mn * v.d \/ v.n = floor * v.d
        IN  /\ future_pe.kind = "value"
            /\ v.n >= 6 * v.d
            /\ IF Above(3, 20) THEN Compressed(9, 10, 12)
               ELSE IF Above(1, 10) THEN Compressed(17, 20, 10)
               ELSE IF Above(1, 20) THEN Compressed(4, 5, 8)
               ELSE Compressed(7, 10, 6)

C17_Witness ==
    /\ pc = "pe8_done"
    /\ projected_growth_rate = Some(Frac(3, 20))
    /\ current_pe = Some(FInt(20))
    /\ future_pe = Returns(FInt(17))

\* C18: the EPS-method future multiple is a value for every list of
\* historical multiples and every growth rate: no error is raised and the
\* value lies in [6, 30].
C18_MultipleAlwaysDefined ==
    pc = "pe9_done" =>
        /\ future_pe.kind = "value"
        /\ LET v == future_pe.value[1]
           IN  6 * v.d <= v.n /\ v.n <= 30 * v.d

----------------------------------------------------------------------------
(* Properties of the projectors *)

\* The rows of a method in the result set.
MethodRows(how) == SelectSeq(results, LAMBDA r : r.Method = how)

\* r ** (1/10) - 1 >= n/d - 1, for an annualized return
ReturnAtLeast(annualized, n, d) ==
    \/ annualized.kind = "inf"
    \/ annualized.kind = "root" /\ AtLeastPower(annualized.v[1], Frac(n, d), 10)

EpsProjected == eps_projection # None /\ eps_projection.kind = "value"

\* C12: a ticker whose current price or share count is not positive gets
\* no projection and is in neither method's result set.
C12_NoProjectionWithoutPrice ==
    (pc = "project_done" /\ (current_price[1] <= 0 \/ current_shares[1] <= 0)) =>
        results = << >>

\* C13: every division the two projectors execute has a positive
\* denominator: a non-positive price, share count or growth rate is found
\* before the division and no division by it takes place.
C13_DenominatorsChecked ==
    /\ roe_projection # None =>
          \A i \in 1..Len(roe_projection.value[1].divisors) :
              roe_projection.value[1].divisors[i].n > 0
    /\ EpsProjected =>
          \A i \in 1..Len(eps_projection.value[1].divisors) :
              eps_projection.value[1].divisors[i].n > 0

\* C14: the EPS-growth projector returns a projection only when
\* total_future_value > current_price, so every projection it returns, and
\* every EPS-method result, has total_return > 0 and annualized_return > 0.
C14_NoDegenerateEpsResult ==
    /\ EpsProjected =>
          LET p == eps_projection.value[1]
          IN  /\ p.total_future_value.n > current_price[1] * p.total_future_value.d
              /\ p.total_return.kind = "finite"
              /\ p.total_return.v[1].n > 0
              /\ p.annualized_return.kind = "root"
              /\ p.annualized_return.v[1].n > p.annualized_return.v[1].d
    /\ \A i \in 1..Len(MethodRows("EPS")) :
          LET r == MethodRows("EPS")[i]
          IN  /\ r.Total_Return_10yr.kind = "finite"
              /\ r.Total_Return_10yr.v[1].n > 0
              /\ r.Annualized_Return.kind = "root"
              /\ r.Annualized_Return.v[1].n > r.Annualized_Return.v[1].d

C14_Witness ==
    /\ pc = "project_done"
    /\ current_price[1] > 0
    /\ DOMAIN eps_data = {2020, 2021, 2022}
    /\ eps_data[2022] > 0
    /\ growth_rates # << >>
    /\ eps_projection = ReturnsNothing

\* C16: a method's result set holds the ticker exactly when the method
\* computed an annualized return >= 0.12 for it; a row is "Excellent" with
\* Meets_15_Percent when the return is >= 0.15 and "Acceptable" otherwise;
\* Meets_12_Percent is true on every row.
C16_AdmissionAndTier ==
    pc = "project_done" =>
        /\ Len(MethodRows("ROE")) <= 1
        /\ Len(MethodRows("EPS")) <= 1
        /\ MethodRows("ROE") # << >>
              <=> ReturnAtLeast(roe_projection.value[1].annualized_return, 28, 25)
        /\ MethodRows("EPS") # << >>
              <=> (EpsProjected
                     /\ ReturnAtLeast(eps_projection.value[1].annualized_return, 28, 25))
        /\ \A i \in 1..Len(results) :
              /\ results[i].Meets_12_Percent
              /\ results[i].Meets_15_Percent
                    <=> ReturnAtLeast(results[i].Annualized_Return, 23, 20)
              /\ PerformanceStatus(results[i])
                    = (IF ReturnAtLeast(results[i].Annualized_Return, 23, 20)
                       THEN "Excellent" ELSE "Acceptable")
              /\ results[i].Annualized_Return
                    = (IF results[i].Method = "ROE"
                       THEN roe_projection.value[1].annualized_return
                       ELSE eps_projection.value[1].annualized_return)

C16_Witness ==
    /\ pc = "project_done"
    /\ Len(results) = 2
    /\ results[1].Meets_15_Percent
    /\ ~results[2].Meets_15_Percent
    /\ results[2].Annualized_Return.kind = "root"

\* What the EPS method makes of a ticker: its annualized return, or why
\* there is none.
EpsAnnualized(outcome) ==
    IF outcome = None THEN [kind |-> "skipped", annualized_return |-> NaN]
    ELSE IF outcome[1].kind # "value" THEN [kind |-> outcome[1].kind, annualized_return |-> NaN]
    ELSE [kind |-> "value", annualized_return |-> outcome[1].value[1].annualized_return]

DoubledEps == [y \in DOMAIN eps_data |-> 2 * eps_data[y]]

\* C20, as stated: doubling the current price, the current equity and the
\* shares outstanding together leaves the annualized return of the ROE
\* method unchanged.
C20_DoublingAllThree ==
    pc = "project_done" =>
        calculate_projected_return(2 * current_price[1], 2 * current_equity[1],
            2 * current_shares[1], roe_avg[1], payout_ratio_avg[1], current_pe,
            Horizon).annualized_return
          = roe_projection.value[1].annualized_return

\* C20, amended: doubling the current price and the driving value per
\* share (the equity at unchanged shares outstanding for the ROE method,
\* every EPS of the series for the EPS method) leaves the annualized return
\* unchanged, and so the outcome of either method.
C20_ScaleInvariance ==
    pc = "project_done" =>
        /\ calculate_projected_return(2 * current_price[1], 2 * current_equity[1],
               current_shares[1], roe_avg[1], payout_ratio_avg[1], current_pe,
               Horizon).annualized_return
             = roe_projection.value[1].annualized_return
        /\ EpsAnnualized(Step9Projection(2 * current_price[1], DoubledEps,
                                         eps_payout_ratio_avg[1]))
             = EpsAnnualized(IF eps_projection = None THEN None ELSE Some(eps_projection))

C20_Witness ==
    /\ pc = "project_done"
    /\ roe_projection.value[1].annualized_return.kind = "root"
    /\ roe_projection.value[1].annualized_return.v[1].n > 0
    /\ EpsProjected
    /\ results # << >>

\* The growing annuity term by term: d + d(1+g) + ... + d(1+g)^(k-1).
RECURSIVE AnnuitySum(_, _, _)
AnnuitySum(d, g, k) ==
    IF k = 0 THEN FInt(0)
    ELSE FAdd(AnnuitySum(d, g, k - 1), FMul(d, FPow(FAdd(FInt(1), g), k - 1)))

\* C19: given the same dividend per share d, growth rate g, horizon h,
\* future price and current price, both projectors take the cumulative
\* dividends as d ((1+g)^h - 1) / g when g > 0 (the sum of the growing
\* annuity) and d h when g <= 0, and total_future_value as future price +
\* dividends; and whenever the EPS method returns a projection, the two
\* methods return the same total_return and annualized_return.
C19_SharedReturnFormulas ==
    pc = "formulas" =>
        LET d == dividend_per_share[1]
            g == projected_growth_rate[1]
            dividends == IF g.n > 0 THEN AnnuitySum(d, g, Horizon) ELSE FMul(d, FInt(Horizon))
            AsClaimed(p) ==
                /\ p.total_dividends = dividends
                /\ g.n > 0 => FMul(p.total_dividends, g)
                                  = FMul(d, FSub(FPow(FAdd(FInt(1), g), Horizon), FInt(1)))
                /\ p.total_future_value = FAdd(future_price[1], dividends)
        IN  /\ roe_projection # None => AsClaimed(roe_projection.value[1])
            /\ EpsProjected => AsClaimed(eps_projection.value[1])
            /\ (roe_projection # None /\ EpsProjected) =>
                  /\ roe_projection.value[1].total_return
                        = eps_projection.value[1].total_return
                  /\ roe_projection.value[1].annualized_return
                        = eps_projection.value[1].annualized_return

C19_Witness ==
    /\ pc = "formulas"
    /\ roe_projection # None
    /\ EpsProjected
    /\ projected_growth_rate[1].n > 0
    /\ dividend_per_share[1].n > 0
    /\ eps_projection.value[1].annualized_return.kind = "root"

----------------------------------------------------------------------------
(* Properties of the Method Runners *)

\* C11: no exception escapes the Method Runner on the data of a ticker:
\* the run never ends in an uncaught exception.
C11_NoEscapingException == pc # "crashed"

----------------------------------------------------------------------------
(* Properties of the EPS method, end to end *)

\* The EPS series has at least two years, no loss and no growth: every
\* year has the same positive EPS.
ZeroGrowthSeries ==
    /\ Cardinality(DOMAIN eps_data) >= 2
    /\ \A y \in DOMAIN eps_data : eps_data[y] > 0
    /\ \A x, y \in DOMAIN eps_data : eps_data[x] = eps_data[y]

\* What the run of the EPS method makes of a zero-growth series: the
\* growth estimate is 0.0 and, when a projection is returned, its future
\* EPS is the current EPS and its dividends of the period are 10 times
\* the current dividend per share.
ZeroGrowthYield ==
    /\ projected_growth_rate = Some(FInt(0))
    /\ EpsProjected =>
          LET projection == eps_projection.value[1]
          IN  /\ projection.future_eps = projection.current_eps
              /\ projection.current_eps = FInt(eps_data[LatestYear(eps_data)])
              /\ projection.total_dividends =
                     FMul(FInt(10), projection.current_dividend_per_share)

\* C23 as stated: the run of the EPS method on any loss-free series with
\* zero growth, the two-year series [1.00, 1.00] included, yields the
\* growth estimate 0.0, a future EPS equal to the current EPS and
\* dividends of 10 times the current dividend per share.
C23_ZeroGrowthAnySeries ==
    (pc = "project_done" /\ ZeroGrowthSeries) => ZeroGrowthYield

\* C23, amended: the same of a loss-free zero-growth series of at least 3
\* years; a series of fewer years is dropped before any estimate is made.
C23_ZeroGrowthProjection ==
    (pc = "project_done" /\ ZeroGrowthSeries) =>
        IF Cardinality(DOMAIN eps_data) >= 3 THEN ZeroGrowthYield
        ELSE projected_growth_rate = None /\ eps_projection = None

C23_Witness ==
    /\ pc = "project_done"
    /\ ZeroGrowthSeries
    /\ Cardinality(DOMAIN eps_data) = 3
    /\ growth_rates = <<FInt(0), FInt(0)>>
    /\ EpsProjected
    /\ eps_projection.value[1].future_eps = FInt(1)
    /\ eps_projection.value[1].total_dividends = FInt(5)
    /\ eps_projection.value[1].current_dividend_per_share = Frac(1, 2)
----------------------------------------------------------------------------
(* Properties of the runs over a batch *)

\* The rows a result file holds for a ticker.
RowsOf(file, ticker) ==
    IF file.exists
    THEN {file.rows[i] : i \in {j \in 1..Len(file.rows) : file.rows[j].Ticker = ticker}}
    ELSE {}

\* What a run on the ticker alone puts in its result set.
AloneRoe(ticker) ==
    IF Step8Outcome(ticker).kind = "value" THEN {Step8Outcome(ticker).value[1]} ELSE {}

AloneEps(ticker) ==
    IF Step9Outcome(ticker).kind = "value" THEN {Step9Outcome(ticker).value[1]} ELSE {}

\* The tickers of the batch, and the candidates of the EPS run.
BatchOf(list) == {list[i] : i \in 1..Len(list)}

Candidates == IF roe_csv.exists THEN {roe_csv.rows[i].Ticker : i \in 1..Len(roe_csv.rows)} ELSE {}

\* C24: whether a ticker appears in the result set of a method, and with
\* which values, depends only on the ticker: once the ROE run is over, the
\* rows its result file holds for a ticker of the batch are those of a run
\* on that ticker alone, whatever the other tickers and their order; and
\* the same of the EPS run and its candidates.
C24_TickersIndependent ==
    /\ pc \in {"batch9", "batch_done", "crashed"} =>
          \A t \in BatchOf(tickers) : RowsOf(roe_csv, t) = AloneRoe(t)
    /\ pc = "batch_done" =>
          \A t \in Candidates : RowsOf(eps_csv, t) = AloneEps(t)

\* The result set of the ROE run of this batch: the tickers of the batch
\* that the run admits.
RoeResultSet == {t \in BatchOf(tickers) : Step8Outcome(t).kind = "value"}

\* C27: the EPS run has the tickers written by the ROE run as its
\* candidates, so it yields results only after the ROE run has produced
\* output, and every ticker of the EPS result set is in the result set
\* of the ROE run of the same batch.
C27_EpsWithinRoeOfTheRun ==
    pc = "batch_done" =>
        /\ eps_csv.exists => roe_csv.exists
        /\ \A t \in BatchTickers : RowsOf(eps_csv, t) # {} => t \in RoeResultSet
----------------------------------------------------------------------------
(* Properties of the growth rate of the EPS run *)

\* The k-th smallest value of a list: fewer than k values are below it and
\* at least k values are not above it.
KthSmallest(list, k) ==
    LET v == CHOOSE x \in {list[i] : i \in 1..Len(list)} :
                 /\ Cardinality({i \in 1..Len(list) : FLt(list[i], x)}) < k
                 /\ Cardinality({i \in 1..Len(list) : FLe(list[i], x)}) >= k
    IN  v

\* The median of a non-empty list, by its order statistics.
MiddleValue(list) ==
    LET n == Len(list)
    IN  IF n % 2 = 1 THEN KthSmallest(list, (n + 1) \div 2)
        ELSE FMul(FAdd(KthSmallest(list, n \div 2), KthSmallest(list, n \div 2 + 1)),
                  Frac(1, 2))

\* The value x clamped to [0, 0.20].
ClampedToFifth(x) ==
    IF x.n < 0 THEN FInt(0) ELSE IF 5 * x.n > x.d THEN Frac(1, 5) ELSE x

\* C29: in the run of the EPS method a ticker with no growth observation
\* is dropped before any estimate is made, so the default of 0.05 is
\* never used: the growth rate of every projection and of every reported
\* row is the median of at least one observation, clamped to [0, 0.20].
C29_DefaultGrowthNeverUsed ==
    pc = "project_done" =>
        /\ growth_rates = << >> => (projected_growth_rate = None /\ eps_projection = None)
        /\ (EpsProjected \/ MethodRows("EPS") # << >>) =>
              /\ growth_rates # << >>
              /\ projected_growth_rate = Some(ClampedToFifth(MiddleValue(growth_rates)))
              /\ eps_projection.value[1].projected_growth_rate = projected_growth_rate[1]

\* A reported row whose growth rate is the clamped median of the
\* observations 0.50 and 0.
C29_Witness ==
    /\ pc = "project_done"
    /\ MethodRows("EPS") # << >>
    /\ growth_rates = <<Frac(1, 2), FInt(0)>>
    /\ projected_growth_rate = Some(Frac(1, 5))
    /\ eps_projection.value[1].projected_growth_rate = Frac(1, 5)
====
